---- MODULE Spec2Model ----
(***************************************************************************)
(* Clause-aware chunker, hybrid extraction engine (validation, pattern    *)
(* and narrative extractors, merge, defaults, canonical renderer, report)  *)
(* and upload path of the contract intelligence agent: chunker.py,         *)
(* hybrid_extractor.py, docx_parser.py, regex_extractors.py,               *)
(* llm_extractors.py and upload_manager.py of src/src/ingestion, and       *)
(* ingest_document of src/src/agent/contract_agent.py.                     *)
(*                                                                         *)
(* A text is a sequence of tokens.  The two whitespace characters that     *)
(* matter to the regular expressions, space and newline, are tokens of     *)
(* their own, so that \s, ., ^ and $ behave as they do in the re module;   *)
(* labels, section markers, words and clause numbers are atomic tokens;    *)
(* dollar amounts are spelled character by character.                      *)
(***************************************************************************)
EXTENDS Integers, Sequences, FiniteSets, TLC

VARIABLES
  text,               \* the document handed to chunk_contract
  nlines,             \* number of lines the document was written with
  pc,                 \* "input" while the document is written; after
                      \* extract_contract_from_docx "extracted" (valid result),
                      \* "rejected" (invalid result) or "raised" (exception);
                      \* "done" after chunk_contract; "validated" after
                      \* validate_upload; "returned" after process_upload and
                      \* ingest_document; "matched" after extract_dollar_values
  filename,           \* extract_contract_from_docx: argument filename
  docx,               \* extract_contract_from_docx: the document behind file_path_or_bytes
  freeform,           \* extract_contract_from_docx: mode, api_key, what the service does
                      \* and what the keyword scans find in the text
  is_valid,           \* extract_contract_from_docx: is_valid of the returned result
  error,              \* extract_contract_from_docx: error of the returned result
  hash_table,         \* hash(contract_number) % 100000 of the strings hashed so far
  previous,           \* the record and report of the merge before the last one
  regex_results,      \* extract_contract_from_docx: local regex_results
  llm_results,        \* extract_contract_from_docx: local llm_results
  report,             \* extract_contract_from_docx: the ExtractionReport
  contract,           \* extract_contract_from_docx: the contract record (NoContract when none)
  contract_number,    \* chunk_contract: local contract_number
  contract_metadata,  \* chunk_contract: local contract_metadata
  context_prefix,     \* chunk_contract: local context_prefix
  sections,           \* chunk_contract: local sections
  chunks,             \* chunk_contract: the returned list of ContractChunk
  vector_store,       \* the documents of the vector store, in the order they were added
  disk,               \* the files written so far: path |-> content
  clock,              \* datetime.now(), in seconds
  retriever,          \* ContractAgent.retriever: the number of vectors it was made over
  returned            \* what the calls of the upload manager and of the agent
                      \* have returned so far, in order

vars == <<text, nlines, pc, filename, docx, freeform, is_valid, error, hash_table, previous,
          regex_results, llm_results, report, contract,
          contract_number, contract_metadata, context_prefix, sections, chunks,
          vector_store, disk, clock, retriever, returned>>

(***************************************************************************)
(* Strings                                                                 *)
(***************************************************************************)
NL == "\n"
SP == " "

IsSpace(t) == t \in {SP, NL}

Min(S) == CHOOSE x \in S : \A y \in S : x <= y
Max(S) == CHOOSE x \in S : \A y \in S : x >= y

\* str.strip()
strip(s) ==
  LET idx == {i \in 1..Len(s) : ~IsSpace(s[i])}
  IN  IF idx = {} THEN <<>> ELSE SubSeq(s, Min(idx), Max(idx))

\* str.split("\n")
RECURSIVE split(_)
split(s) ==
  LET nl == {i \in 1..Len(s) : s[i] = NL}
  IN  IF nl = {} THEN <<s>>
      ELSE <<SubSeq(s, 1, Min(nl) - 1)>> \o split(SubSeq(s, Min(nl) + 1, Len(s)))

\* "\n".join(lines)
RECURSIVE join(_)
join(lines) ==
  IF lines = <<>> THEN <<>>
  ELSE IF Len(lines) = 1 THEN lines[1]
  ELSE lines[1] \o <<NL>> \o join(Tail(lines))

\* tok in s
Contains(s, tok) == \E i \in 1..Len(s) : s[i] = tok

\* s.startswith(<<tok>>)
startswith(s, tok) == s # <<>> /\ s[1] = tok

\* s.replace(old, ""), old a token sequence: every non-overlapping occurrence
\* is removed, left to right
RECURSIVE replace(_, _)
replace(s, old) ==
  IF Len(s) < Len(old) THEN s
  ELSE IF SubSeq(s, 1, Len(old)) = old THEN replace(SubSeq(s, Len(old) + 1, Len(s)), old)
  ELSE <<Head(s)>> \o replace(Tail(s), old)

(***************************************************************************)
(* Regular-expression pieces                                               *)
(***************************************************************************)
NoMatch == [ok |-> FALSE]

\* ^ under re.MULTILINE
LineStart(s, b) == b = 1 \/ s[b - 1] = NL

\* first position at or after p that \s does not match (Len(s) + 1 when none)
WsRunEnd(s, p) ==
  LET nz == {i \in p..Len(s) : ~IsSpace(s[i])}
  IN  IF nz = {} THEN Len(s) + 1 ELSE Min(nz)

\* last position of the line that holds position q
LineEnd(s, q) ==
  LET nl == {i \in q..Len(s) : s[i] = NL}
  IN  IF nl = {} THEN Len(s) ELSE Min(nl) - 1

\* \s{minws,}(.+?)$ under re.MULTILINE, tried at position p.  \s is greedy and
\* also takes newlines; "." takes no newline, so the lazy group runs to the end
\* of the line it starts on.  When only whitespace is left, \s gives characters
\* back until the group can start on a space.
RestOfLine(s, p, minws) ==
  LET Group(r, sp) ==
        IF r <= Len(s)
        THEN IF r - p >= minws
             THEN [ok |-> TRUE, start |-> r, end |-> LineEnd(s, r)]
             ELSE NoMatch
        ELSE IF sp # {}
             THEN [ok |-> TRUE, start |-> Max(sp), end |-> LineEnd(s, Max(sp))]
             ELSE NoMatch
  IN  Group(WsRunEnd(s, p), {q \in (p + minws)..Len(s) : s[q] = SP})

\* re.search(LABEL \s*(.+?)$, s, re.MULTILINE): group(1) of the leftmost match
LabelSearch(s, label) ==
  LET Group1(m) == [ok |-> TRUE, group |-> SubSeq(s, m.start, m.end)]
      Leftmost(hits) ==
        IF hits = {} THEN NoMatch ELSE Group1(RestOfLine(s, Min(hits) + 1, 0))
  IN  Leftmost({i \in 1..Len(s) : s[i] = label /\ RestOfLine(s, i + 1, 0).ok})


(***************************************************************************)
(* chunker.py: patterns                                                    *)
(***************************************************************************)
END_MARKER == "--- END OF CONTRACT ---"

\* SECTION_PATTERNS: <<marker, section name>>, in the order they are tried
SECTION_PATTERNS == <<
  <<"--- CONTRACTOR INFORMATION ---", "contractor_info">>,
  <<"--- TOTAL CONTRACT VALUE ---", "value">>,
  <<"--- PERIOD OF PERFORMANCE ---", "period_of_performance">>,
  <<"--- STATEMENT OF WORK ---", "scope_of_work">>,
  <<"--- CONTRACT LINE ITEMS (CLINs) ---", "clins">>,
  <<"--- APPLICABLE FAR CLAUSES ---", "far_clauses">>,
  <<"--- APPLICABLE DFARS CLAUSES ---", "dfars_clauses">>,
  <<"--- SUBCONTRACTOR REQUIREMENTS ---", "subcontractor_requirements">>,
  <<"--- SECURITY REQUIREMENTS ---", "security_requirements">>,
  <<"--- SPECIAL CONTRACT PROVISIONS ---", "special_provisions">> >>

\* tokens that [\d.]+-[\d]+ matches, and tokens that \d+ matches
ClauseNumbers == {"52.202-1", "52.204-21", "252.204-7012", "252.227-7013"}
ClinNumbers == {"0001", "0002"}

\* CLAUSE_PATTERN = ^\s+((?:FAR|DFARS)\s+[\d.]+-[\d]+)\s+-\s+(.+?)$ tried at b
\* p1, p2, p3: where the regime word, the number and the dash are looked for;
\* t: the title
CLAUSE_PATTERN(s, b) ==
  LET Title(p1, p2, p3, t) ==
        IF t.ok
        THEN [ok |-> TRUE, start |-> b, end |-> t.end + 1,
              group1 |-> SubSeq(s, p1, p2), group2 |-> SubSeq(s, t.start, t.end)]
        ELSE NoMatch
      Dash(p1, p2, p3) ==
        IF p3 > p2 + 1 /\ p3 <= Len(s) /\ s[p3] = "-"
        THEN Title(p1, p2, p3, RestOfLine(s, p3 + 1, 1)) ELSE NoMatch
      Number(p1, p2) ==
        IF p2 > p1 + 1 /\ p2 <= Len(s) /\ s[p2] \in ClauseNumbers
        THEN Dash(p1, p2, WsRunEnd(s, p2 + 1)) ELSE NoMatch
      Regime(p1) ==
        IF p1 > b /\ p1 <= Len(s) /\ s[p1] \in {"FAR", "DFARS"}
        THEN Number(p1, WsRunEnd(s, p1 + 1)) ELSE NoMatch
  IN  IF LineStart(s, b) THEN Regime(WsRunEnd(s, b)) ELSE NoMatch

\* clin_pattern = ^\s+CLIN\s+(\d+): tried at b
clin_pattern(s, b) ==
  LET ClinNumber(p1, p2) ==
        IF p2 > p1 + 1 /\ p2 + 1 <= Len(s) /\ s[p2] \in ClinNumbers /\ s[p2 + 1] = ":"
        THEN [ok |-> TRUE, start |-> b, end |-> p2 + 2, group1 |-> <<s[p2]>>]
        ELSE NoMatch
      ClinWord(p1) ==
        IF p1 > b /\ p1 <= Len(s) /\ s[p1] = "CLIN"
        THEN ClinNumber(p1, WsRunEnd(s, p1 + 1)) ELSE NoMatch
  IN  IF LineStart(s, b) THEN ClinWord(WsRunEnd(s, b)) ELSE NoMatch

\* sub_pattern = ^\s+Subcontractor:\s+(.+?)$ tried at b
sub_pattern(s, b) ==
  LET SubName(t) ==
        IF t.ok
        THEN [ok |-> TRUE, start |-> b, end |-> t.end + 1,
              group1 |-> SubSeq(s, t.start, t.end)]
        ELSE NoMatch
      SubWord(p1) ==
        IF p1 > b /\ p1 <= Len(s) /\ s[p1] = "Subcontractor:"
        THEN SubName(RestOfLine(s, p1 + 1, 1)) ELSE NoMatch
  IN  IF LineStart(s, b) THEN SubWord(WsRunEnd(s, b)) ELSE NoMatch

PatternAt(kind, s, b) ==
  CASE kind = "clause" -> CLAUSE_PATTERN(s, b)
    [] kind = "clin"   -> clin_pattern(s, b)
    [] kind = "sub"    -> sub_pattern(s, b)

\* pattern.finditer(s): the non-overlapping matches, scanning from pos
RECURSIVE finditer(_, _, _)
finditer(kind, s, pos) ==
  LET Scan(m) == IF m.ok THEN <<m>> \o finditer(kind, s, m.end)
                 ELSE finditer(kind, s, pos + 1)
  IN  IF pos > Len(s) THEN <<>> ELSE Scan(PatternAt(kind, s, pos))

(***************************************************************************)
(* chunker.py: values                                                      *)
(***************************************************************************)
\* Optional[str]: None is the empty sequence, a string x is <<x>>
None == <<>>
Some(x) == <<x>>

\* dict: a function on its keys
EmptyDict == <<>>
dict_set(d, k, v) == [x \in DOMAIN d \cup {k} |-> IF x = k THEN v ELSE d[x]]
dict_update(d, e) == [x \in DOMAIN d \cup DOMAIN e |-> IF x \in DOMAIN e THEN e[x] ELSE d[x]]

\* class ContractChunk
ContractChunk(t, cn, sec, ctype, cnum, ctitle, md) ==
  [text |-> t, contract_number |-> cn, section |-> sec, chunk_type |-> ctype,
   clause_number |-> cnum, clause_title |-> ctitle, metadata |-> md]

(***************************************************************************)
(* chunker.py: contract number and contract-level metadata                 *)
(***************************************************************************)
UNKNOWN == <<"UNKNOWN">>

extract_contract_number(s) ==
  LET NumberOf(match) == IF match.ok THEN strip(match.group) ELSE UNKNOWN
  IN  NumberOf(LabelSearch(s, "CONTRACT NUMBER:"))

Digit == [c \in {"0", "1", "2", "3", "4", "5", "6", "7", "8", "9"} |->
            CASE c = "0" -> 0 [] c = "1" -> 1 [] c = "2" -> 2 [] c = "3" -> 3
              [] c = "4" -> 4 [] c = "5" -> 5 [] c = "6" -> 6 [] c = "7" -> 7
              [] c = "8" -> 8 [] c = "9" -> 9]
IsDigit(c) == c \in DOMAIN Digit

\* int() of a sequence of digit characters
RECURSIVE DigitsValue(_)
DigitsValue(ds) ==
  IF ds = <<>> THEN 0
  ELSE 10 * DigitsValue(SubSeq(ds, 1, Len(ds) - 1)) + Digit[ds[Len(ds)]]

\* float() of "<whole>.<frac>", in cents; digits after the second decimal are
\* not kept (no amount of the model has any)
FloatCents(whole, frac) ==
  100 * DigitsValue(whole)
  + (IF Len(frac) >= 1 THEN 10 * Digit[frac[1]] ELSE 0)
  + (IF Len(frac) >= 2 THEN Digit[frac[2]] ELSE 0)

\* _parse_dollar_amount: \$[\d,]+(?:\.\d+)? searched in raw, "$" and ","
\* removed, float() of the rest; None when nothing matches or float() raises
_parse_dollar_amount(raw) ==
  LET \* float() of the digits before and after the point
      Float(whole, frac) ==
        IF whole = <<>> /\ frac = <<>> THEN None ELSE Some(FloatCents(whole, frac))
      \* the match runs from i; its [\d,]+ part ends at e
      Fraction(i, e, fstop) ==
        Float(SelectSeq(SubSeq(raw, i + 1, e), IsDigit),
              IF e + 2 <= Len(raw) /\ raw[e + 1] = "." /\ IsDigit(raw[e + 2])
              THEN SubSeq(raw, e + 2, IF fstop = {} THEN Len(raw) ELSE Min(fstop) - 1)
              ELSE <<>>)
      Whole(i, e) == Fraction(i, e, {j \in (e + 2)..Len(raw) : ~IsDigit(raw[j])})
      From(i, stop) == Whole(i, IF stop = {} THEN Len(raw) ELSE Min(stop) - 1)
      Search(starts) ==
        IF starts = {} THEN None
        ELSE From(Min(starts),
                  {j \in (Min(starts) + 1)..Len(raw) : ~(IsDigit(raw[j]) \/ raw[j] = ",")})
  IN  Search({i \in 1..Len(raw) - 1 :
                raw[i] = "$" /\ (IsDigit(raw[i + 1]) \/ raw[i + 1] = ",")})

\* round(dollars / unit) for an amount in cents, ties to even
RoundUnits(amount, unit) ==
  LET Round(c, q, rem) ==
        IF IF unit = 1
           THEN c > 50 \/ (c = 50 /\ q % 2 = 1)
           ELSE \/ rem > unit \div 2
                \/ rem = unit \div 2 /\ (c > 0 \/ q % 2 = 1)
        THEN q + 1 ELSE q
  IN  Round(amount % 100, (amount \div 100) \div unit, (amount \div 100) % unit)

\* f"{n:,}" for n < 1,000,000
Commas(n) ==
  IF n < 1000 THEN ToString(n)
  ELSE ToString(n \div 1000) \o ","
       \o (IF n % 1000 < 10 THEN "00" ELSE IF n % 1000 < 100 THEN "0" ELSE "")
       \o ToString(n % 1000)

\* _format_value_label, amount in cents
_format_value_label(amount) ==
  LET OneDecimal(q, unit) == "$" \o ToString(q \div 10) \o "." \o ToString(q % 10) \o unit
  IN  IF amount \div 100 >= 1000000000
      THEN OneDecimal(RoundUnits(amount, 100000000), "B")
      ELSE IF amount \div 100 >= 1000000
      THEN OneDecimal(RoundUnits(amount, 100000), "M")
      ELSE IF amount \div 100 >= 1000
      THEN "$" \o ToString(RoundUnits(amount, 1000)) \o "K"
      ELSE "$" \o Commas(RoundUnits(amount, 1))

text_patterns == <<
  <<"contracting_officer", "CONTRACTING OFFICER:">>,
  <<"contracting_agency", "CONTRACTING AGENCY:">>,
  <<"contract_type", "CONTRACT TYPE:">> >>

value_patterns == <<
  <<"funded_amount", "Funded Amount:">>,
  <<"base_value", "Base Period Value:">>,
  <<"ceiling_value", "Contract Ceiling:">> >>

\* the two loops of extract_contract_metadata, over patterns[i..]
RECURSIVE TextFields(_, _, _)
TextFields(s, i, md) ==
  LET Store(match) ==
        IF match.ok THEN dict_set(md, text_patterns[i][1], strip(match.group)) ELSE md
  IN  IF i > Len(text_patterns) THEN md
      ELSE TextFields(s, i + 1, Store(LabelSearch(s, text_patterns[i][2])))

RECURSIVE ValueFields(_, _, _)
ValueFields(s, i, md) ==
  LET StoreAmount(amount) ==
        IF amount # None THEN dict_set(md, value_patterns[i][1], amount[1]) ELSE md
      Amount(match) ==
        StoreAmount(IF match.ok THEN _parse_dollar_amount(match.group) ELSE None)
  IN  IF i > Len(value_patterns) THEN md
      ELSE ValueFields(s, i + 1, Amount(LabelSearch(s, value_patterns[i][2])))

\* metadata.get(k) is a number other than 0
Truthy(md, k) == k \in DOMAIN md /\ md[k] # 0

\* the value_label statements of extract_contract_metadata
ValueLabel(md) ==
  IF Truthy(md, "funded_amount")
  THEN dict_set(md, "value_label",
                <<_format_value_label(md["funded_amount"]), SP, "funded">>)
  ELSE IF Truthy(md, "base_value")
  THEN dict_set(md, "value_label",
                <<_format_value_label(md["base_value"]), SP, "base", SP, "value">>)
  ELSE IF Truthy(md, "ceiling_value")
  THEN dict_set(md, "value_label",
                <<_format_value_label(md["ceiling_value"]), SP, "ceiling">>)
  ELSE md

extract_contract_metadata(s) == ValueLabel(ValueFields(s, 1, TextFields(s, 1, EmptyDict)))

\* contract_metadata.get(k) is a non-empty string
Present(md, k) == k \in DOMAIN md /\ md[k] # <<>>

build_context_prefix(cn, md) ==
  <<"[Contract:", SP>> \o cn
  \o (IF Present(md, "contracting_officer")
      THEN <<SP, "|", SP, "Officer:", SP>> \o md["contracting_officer"] ELSE <<>>)
  \o (IF Present(md, "contracting_agency")
      THEN <<SP, "|", SP, "Agency:", SP>> \o md["contracting_agency"] ELSE <<>>)
  \o (IF Present(md, "contract_type")
      THEN <<SP, "|", SP, "Type:", SP>> \o md["contract_type"] ELSE <<>>)
  \o (IF Present(md, "value_label")
      THEN <<SP, "|", SP, "Value:", SP>> \o md["value_label"] ELSE <<>>)
  \o <<"]", NL>>

(***************************************************************************)
(* chunker.py: sections and chunks                                         *)
(***************************************************************************)
\* index of the first SECTION_PATTERNS entry that re.search finds in the line, 0 when none
MatchSection(line) ==
  LET hit == {k \in 1..Len(SECTION_PATTERNS) : Contains(line, SECTION_PATTERNS[k][1])}
  IN  IF hit = {} THEN 0 ELSE Min(hit)

\* the statement after the loop of split_into_sections
SaveSection(secs, name, cur) ==
  IF cur # <<>> THEN Append(secs, <<name, join(cur)>>) ELSE secs

\* the loop of split_into_sections over lines[i..]
RECURSIVE SectionLoop(_, _, _, _, _)
SectionLoop(lines, i, secs, name, cur) ==
  IF i > Len(lines) THEN SaveSection(secs, name, cur)
  ELSE LET k == MatchSection(lines[i])
       IN  IF k # 0
           THEN SectionLoop(lines, i + 1, SaveSection(secs, name, cur),
                            SECTION_PATTERNS[k][2], <<lines[i]>>)
           ELSE IF strip(lines[i]) = <<END_MARKER>>
           THEN SaveSection(secs, name, cur)
           ELSE SectionLoop(lines, i + 1, secs, name, Append(cur, lines[i]))

split_into_sections(s) == SectionLoop(split(s), 1, <<>>, "header", <<>>)

\* section_text[start:end] of match i of positions, stripped
SpanText(section_text, positions, i) ==
  LET end == IF i + 1 <= Len(positions) THEN positions[i + 1].start
             ELSE Len(section_text) + 1
  IN  strip(SubSeq(section_text, positions[i].start, end - 1))

\* faulty variant of WholeSection: a section without split points is dropped
WholeSection_dropped(section_text, cn, sec, ctype) == <<>>

\* the branch of the three section chunkers taken when no position was found
WholeSection(section_text, cn, sec, ctype) ==
  IF strip(section_text) # <<>>
  THEN <<ContractChunk(strip(section_text), cn, sec, ctype, None, None, EmptyDict)>>
  ELSE <<>>

FLOWDOWN == "[MANDATORY FLOWDOWN]"

chunk_clause_section(section_text, cn, clause_type) ==
  LET sec == IF clause_type = "far" THEN "far_clauses" ELSE "dfars_clauses"
      Clause(pos, clause_text) ==
        ContractChunk(clause_text, cn, sec, "clause",
          Some(replace(replace(strip(pos.group1), <<"FAR", SP>>), <<"DFARS", SP>>)),
          Some(strip(pos.group2)),
          [clause_type |-> IF clause_type = "far" THEN "FAR" ELSE "DFARS",
           flowdown |-> Contains(clause_text, FLOWDOWN)])
      Clauses(clause_positions) ==
        IF clause_positions = <<>>
        THEN WholeSection(section_text, cn, sec, "clause")
        ELSE [i \in 1..Len(clause_positions) |->
               Clause(clause_positions[i], SpanText(section_text, clause_positions, i))]
  IN  Clauses(finditer("clause", section_text, 1))

chunk_clins_section(section_text, cn) ==
  LET Clins(positions) ==
        IF positions = <<>>
        THEN WholeSection(section_text, cn, "clins", "clin")
        ELSE [i \in 1..Len(positions) |->
               ContractChunk(SpanText(section_text, positions, i), cn, "clins", "clin",
                             None, None, [clin_number |-> positions[i].group1])]
  IN  Clins(finditer("clin", section_text, 1))

\* match.group(1).split("(")[0].strip()
BeforeParen(s) ==
  LET par == {i \in 1..Len(s) : s[i] = "("}
  IN  strip(IF par = {} THEN s ELSE SubSeq(s, 1, Min(par) - 1))

chunk_subcontractor_section(section_text, cn) ==
  LET Subs(positions) ==
        IF positions = <<>>
        THEN WholeSection(section_text, cn, "subcontractor_requirements", "subcontractor")
        ELSE [i \in 1..Len(positions) |->
               ContractChunk(SpanText(section_text, positions, i), cn,
                             "subcontractor_requirements", "subcontractor", None, None,
                             [subcontractor_name |-> BeforeParen(positions[i].group1)])]
  IN  Subs(finditer("sub", section_text, 1))

\* the if/elif chain in the first loop of chunk_contract
DispatchSection(section, cn, prefix) ==
  LET section_name == section[1]
      section_text == section[2]
  IN  IF section_name = "far_clauses" THEN chunk_clause_section(section_text, cn, "far")
      ELSE IF section_name = "dfars_clauses" THEN chunk_clause_section(section_text, cn, "dfars")
      ELSE IF section_name = "clins" THEN chunk_clins_section(section_text, cn)
      ELSE IF section_name = "subcontractor_requirements"
      THEN chunk_subcontractor_section(section_text, cn)
      ELSE <<ContractChunk(prefix \o strip(section_text), cn, section_name,
               IF section_name \in {"scope_of_work", "security_requirements"}
               THEN section_name ELSE "general",
               None, None, EmptyDict)>>

\* faulty variant of SectionChunks: the test for an all-whitespace section is missing
SectionChunks_no_skip(section, cn, prefix) == DispatchSection(section, cn, prefix)

\* one iteration of the first loop of chunk_contract
SectionChunks(section, cn, prefix) ==
  IF strip(section[2]) = <<>> THEN <<>> ELSE DispatchSection(section, cn, prefix)

RECURSIVE BuildChunks(_, _, _, _)
BuildChunks(secs, i, cn, prefix) ==
  IF i > Len(secs) THEN <<>>
  ELSE SectionChunks(secs[i], cn, prefix) \o BuildChunks(secs, i + 1, cn, prefix)

\* faulty variant of Propagate: the contract-level metadata is not merged in
Propagate_no_metadata(chunk, md, prefix) ==
  [chunk EXCEPT !.text = IF ~startswith(chunk.text, "[Contract:")
                         THEN prefix \o chunk.text ELSE chunk.text]

\* one iteration of the second loop of chunk_contract
Propagate(chunk, md, prefix) ==
  [chunk EXCEPT !.metadata = dict_update(chunk.metadata, md),
                !.text = IF ~startswith(chunk.text, "[Contract:")
                         THEN prefix \o chunk.text ELSE chunk.text]

\* chunk_contract, with the locals the return value is computed from
chunk_contract(s) ==
  LET Chunked(cn, md, prefix, secs, built) ==
        [contract_number |-> cn, contract_metadata |-> md, context_prefix |-> prefix,
         sections |-> secs,
         chunks |-> [i \in 1..Len(built) |-> Propagate(built[i], md, prefix)]]
      Sectioned(cn, md, prefix, secs) ==
        Chunked(cn, md, prefix, secs, BuildChunks(secs, 1, cn, prefix))
      Prefixed(cn, md) ==
        Sectioned(cn, md, build_context_prefix(cn, md), split_into_sections(s))
  IN  Prefixed(extract_contract_number(s), extract_contract_metadata(s))

(***************************************************************************)
(* hybrid_extractor.py: the canonical text of a contract record            *)
(*                                                                         *)
(* A record holds every key _merge_results sets.  Strings are token        *)
(* sequences, None and "" are the empty sequence, amounts are cents.       *)
(***************************************************************************)
DigitChar == <<"0", "1", "2", "3", "4", "5", "6", "7", "8", "9">>

\* the decimal digits of n
RECURSIVE Digits(_)
Digits(n) == IF n < 10 THEN <<DigitChar[n + 1]>>
             ELSE Digits(n \div 10) \o <<DigitChar[(n % 10) + 1]>>

\* format spec ",": groups of three digits separated by commas
RECURSIVE Grouped(_)
Grouped(n) ==
  IF n < 1000 THEN Digits(n)
  ELSE Grouped(n \div 1000)
       \o <<",", DigitChar[((n % 1000) \div 100) + 1], DigitChar[((n % 100) \div 10) + 1],
            DigitChar[(n % 10) + 1]>>

\* f"${amount:,.2f}"
Money(amount) ==
  <<"$">> \o Grouped(amount \div 100)
  \o <<".", DigitChar[((amount % 100) \div 10) + 1], DigitChar[(amount % 10) + 1]>>

\* lists of lines, one after the other
RECURSIVE Flatten(_)
Flatten(blocks) == IF blocks = <<>> THEN <<>> ELSE Head(blocks) \o Flatten(Tail(blocks))

\* ", ".join(items)
RECURSIVE CommaJoin(_)
CommaJoin(items) ==
  IF items = <<>> THEN <<>>
  ELSE IF Len(items) = 1 THEN items[1]
  ELSE items[1] \o <<",", SP>> \o CommaJoin(Tail(items))

\* the lines up to the contractor block
header_lines(c) ==
  <<<<"CONTRACT NUMBER:", SP>> \o c.contract_number>>
  \o (IF c.parent_idiq # <<>>
      THEN <<<<"PARENT IDIQ CONTRACT:", SP>> \o c.parent_idiq>> ELSE <<>>)
  \o <<<<"CONTRACT TYPE:", SP>> \o c.contract_type_name
         \o <<SP, "(">> \o c.contract_type \o <<")">>,
       <<"CONTRACTING AGENCY:", SP>> \o c.agency.name
         \o <<SP, "(">> \o c.agency.code \o <<")">>,
       <<"CONTRACTING OFFICER:", SP>> \o c.contracting_officer,
       <<>>>>

contractor_lines(c) ==
  <<<<"--- CONTRACTOR INFORMATION ---">>,
    <<"Contractor:", SP>> \o c.contractor.name>>
  \o (IF c.contractor.cage # <<>>
      THEN <<<<"CAGE Code:", SP>> \o c.contractor.cage>> ELSE <<>>)
  \o <<<<"Business Size:", SP>> \o c.contractor.size>>
  \o (IF c.contractor.uei # <<>>
      THEN <<<<"DUNS/UEI:", SP>> \o c.contractor.uei>> ELSE <<>>)
  \o <<<<>>>>

codes_lines(c) ==
  (IF c.idiq_vehicle # <<>>
   THEN <<<<"CONTRACT VEHICLE:", SP>> \o c.idiq_vehicle, <<>>>> ELSE <<>>)
  \o (IF c.naics_code # <<>>
      THEN <<<<"NAICS CODE:", SP>> \o c.naics_code>> ELSE <<>>)
  \o (IF c.psc_code # <<>>
      THEN <<<<"PSC CODE:", SP>> \o c.psc_code>> ELSE <<>>)
  \o (IF c.naics_code # <<>> \/ c.psc_code # <<>> THEN <<<<>>>> ELSE <<>>)

\* an optional amount that is None or 0.0
Falsy(x) == x = None \/ x = Some(0)

value_lines(c) ==
  <<<<"--- TOTAL CONTRACT VALUE ---">>>>
  \o (IF c.value # 0
      THEN <<<<"Base Period Value:", SP>> \o Money(c.value)>> ELSE <<>>)
  \o (IF ~Falsy(c.ceiling_value)
      THEN <<<<"Contract Ceiling:", SP>> \o Money(c.ceiling_value[1])>> ELSE <<>>)
  \o (IF c.funded_amount # 0
      THEN <<<<"Funded Amount:", SP>> \o Money(c.funded_amount)>> ELSE <<>>)
  \o <<<<>>>>

period_lines(c) ==
  LET Period(pop) ==
        <<<<"--- PERIOD OF PERFORMANCE ---">>>>
        \o (IF pop.base_period_start # <<>>
            THEN <<<<"Base Period:", SP>> \o pop.base_period_start
                     \o <<SP, "through", SP>> \o pop.base_period_end
                     \o <<SP, "(">> \o Digits(pop.base_period_months) \o <<SP, "months", ")">>>>
            ELSE <<>>)
        \o [i \in 1..Len(pop.option_periods) |->
              <<"Option Period", SP>> \o Digits(pop.option_periods[i].option_number)
              \o <<":", SP>> \o pop.option_periods[i].start_date
              \o <<SP, "through", SP>> \o pop.option_periods[i].end_date
              \o <<SP, "(">> \o Digits(pop.option_periods[i].months) \o <<SP, "months", ")">>]
        \o <<<<>>>>
  IN  Period(c.period_of_performance)

sow_lines(c) ==
  <<<<"--- STATEMENT OF WORK ---">>, c.scope_of_work, <<>>>>

clin_lines(c) ==
  <<<<"--- CONTRACT LINE ITEMS (CLINs) ---">>>>
  \o Flatten([i \in 1..Len(c.clins) |->
       <<<<SP, SP, "CLIN", SP>> \o c.clins[i].clin_number
           \o <<":", SP>> \o c.clins[i].description,
         <<SP, SP, SP, SP, "Type:", SP>> \o c.clins[i].type
           \o <<SP, "|", SP, "Qty:", SP>> \o Digits(c.clins[i].quantity)
           \o <<SP>> \o c.clins[i].unit
           \o <<SP, "|", SP, "Unit Price:", SP>> \o Money(c.clins[i].unit_price)
           \o <<SP, "|", SP, "Total:", SP>> \o Money(c.clins[i].total_price)>>])
  \o (IF c.clins = <<>> THEN <<<<SP, SP, "No CLINs extracted.">>>> ELSE <<>>)
  \o <<<<>>>>

\* far_lines, writing the first clause only
far_lines_first_only(c) ==
  <<<<"--- APPLICABLE FAR CLAUSES ---">>>>
  \o (IF c.clauses.far # <<>>
      THEN <<<<SP, SP, "FAR", SP>> \o c.clauses.far[1].number
               \o <<SP, "-", SP>> \o c.clauses.far[1].title, <<>>>>
      ELSE <<<<SP, SP, "No FAR clauses extracted.">>, <<>>>>)

far_lines(c) ==
  <<<<"--- APPLICABLE FAR CLAUSES ---">>>>
  \o Flatten([i \in 1..Len(c.clauses.far) |->
       <<<<SP, SP, "FAR", SP>> \o c.clauses.far[i].number
           \o <<SP, "-", SP>> \o c.clauses.far[i].title>>
       \o (IF c.clauses.far[i].text # <<>>
           THEN <<<<SP, SP, SP, SP>> \o c.clauses.far[i].text>> ELSE <<>>)
       \o <<<<>>>>])
  \o (IF c.clauses.far = <<>>
      THEN <<<<SP, SP, "No FAR clauses extracted.">>, <<>>>> ELSE <<>>)

dfars_lines(c) ==
  <<<<"--- APPLICABLE DFARS CLAUSES ---">>>>
  \o (IF c.clauses.dfars # <<>>
      THEN Flatten([i \in 1..Len(c.clauses.dfars) |->
             <<<<SP, SP, "DFARS", SP>> \o c.clauses.dfars[i].number
                 \o <<SP, "-", SP>> \o c.clauses.dfars[i].title
                 \o (IF c.clauses.dfars[i].flowdown THEN <<SP, FLOWDOWN>> ELSE <<>>)>>
             \o (IF c.clauses.dfars[i].text # <<>>
                 THEN <<<<SP, SP, SP, SP>> \o c.clauses.dfars[i].text>> ELSE <<>>)
             \o <<<<>>>>])
      ELSE <<<<SP, SP, "No DFARS clauses extracted.">>, <<>>>>)

subcontractor_lines(c) ==
  IF c.subcontractor_requirements = <<>> THEN <<>>
  ELSE
    <<<<"--- SUBCONTRACTOR REQUIREMENTS ---">>>>
    \o Flatten([i \in 1..Len(c.subcontractor_requirements) |->
         <<<<SP, SP, "Subcontractor:", SP>> \o c.subcontractor_requirements[i].subcontractor_name
             \o (IF c.subcontractor_requirements[i].cage_code # <<>>
                 THEN <<SP, "(", "CAGE:", SP>> \o c.subcontractor_requirements[i].cage_code
                      \o <<")">>
                 ELSE <<>>),
           <<SP, SP, SP, SP, "Business Size:", SP>>
             \o c.subcontractor_requirements[i].business_size>>
         \o (IF ~Falsy(c.subcontractor_requirements[i].estimated_value)
             THEN <<<<SP, SP, SP, SP, "Estimated Value:", SP>>
                      \o Money(c.subcontractor_requirements[i].estimated_value[1])>>
             ELSE <<>>)
         \o (IF c.subcontractor_requirements[i].scope # <<>>
             THEN <<<<SP, SP, SP, SP, "Scope:", SP>> \o c.subcontractor_requirements[i].scope>>
             ELSE <<>>)
         \o (IF c.subcontractor_requirements[i].flowdown_clauses # <<>>
             THEN <<<<SP, SP, SP, SP, "Flowdown Clauses:", SP>>
                      \o CommaJoin(c.subcontractor_requirements[i].flowdown_clauses)>>
             ELSE <<>>)
         \o <<<<>>>>])

security_lines(c) ==
  IF c.security_requirements = <<>> THEN <<>>
  ELSE <<<<"--- SECURITY REQUIREMENTS ---">>>>
       \o [i \in 1..Len(c.security_requirements) |->
             <<SP, SP, "-", SP>> \o c.security_requirements[i]]
       \o <<<<>>>>

provision_lines(c) ==
  IF c.special_provisions = <<>> THEN <<>>
  ELSE <<<<"--- SPECIAL CONTRACT PROVISIONS ---">>>>
       \o [i \in 1..Len(c.special_provisions) |-> <<SP, SP>> \o c.special_provisions[i]]
       \o <<<<>>>>

_generate_document_text(c) ==
  join(header_lines(c) \o contractor_lines(c) \o codes_lines(c) \o value_lines(c)
       \o period_lines(c) \o sow_lines(c) \o clin_lines(c) \o far_lines(c) \o dfars_lines(c)
       \o subcontractor_lines(c) \o security_lines(c) \o provision_lines(c)
       \o <<<<END_MARKER>>>>)

(***************************************************************************)
(* hybrid_extractor.py: merging the extraction results                     *)
(*                                                                         *)
(* An ExtractionResult holds an optional value and a confidence in         *)
(* hundredths; regex_results maps field names to ExtractionResults and     *)
(* lacks the fields whose extractor stored nothing.                        *)
(***************************************************************************)
ExtractionResult(value, confidence) == [value |-> value, confidence |-> confidence]

\* class ExtractionReport; confidence_avg is the fraction <<sum, count>>
ExtractionReport ==
  [total_fields |-> 0, regex_extracted |-> 0, llm_extracted |-> 0, defaulted |-> 0,
   confidence_avg |-> <<0, 1>>, warnings |-> <<>>, field_sources |-> EmptyDict]

CONTRACT_TYPE_NAMES ==
  [code \in {"FFP", "CPFF", "CPAF", "T&M", "LH", "IDIQ", "BPA", "CPIF", "FPI"} |->
     CASE code = "FFP"  -> <<"Firm-Fixed-Price">>
       [] code = "CPFF" -> <<"Cost-Plus-Fixed-Fee">>
       [] code = "CPAF" -> <<"Cost-Plus-Award-Fee">>
       [] code = "T&M"  -> <<"Time-and-Materials">>
       [] code = "LH"   -> <<"Labor-Hour">>
       [] code = "IDIQ" -> <<"Indefinite Delivery/Indefinite Quantity">>
       [] code = "BPA"  -> <<"Blanket Purchase Agreement">>
       [] code = "CPIF" -> <<"Cost-Plus-Incentive-Fee">>
       [] code = "FPI"  -> <<"Fixed-Price Incentive">>]

DOD_AGENCIES == {"DOD", "ARMY", "NAVY", "USAF", "DISA", "DLA"}

\* the confidence a regex result needs to be used
min_confidence == 50

\* _get_regex: Some(value) or None
_get_regex(regex, field_name) ==
  IF /\ field_name \in DOMAIN regex
     /\ regex[field_name].value # None
     /\ regex[field_name].confidence >= min_confidence
  THEN regex[field_name].value
  ELSE None

\* x or default, for a string or a list, and for a number
OrText(x, default) == IF x = None \/ x = Some(<<>>) THEN default ELSE x[1]
OrNumber(x, default) == IF x = None \/ x = Some(0) THEN default ELSE x[1]

\* the fields _merge_results asks _get_regex for
RegexFields ==
  {"contract_number", "contract_type", "agency", "contracting_officer", "contractor_name",
   "cage", "size", "uei", "naics_code", "psc_code", "value", "ceiling_value",
   "funded_amount", "base_period_start", "base_period_end", "base_period_months", "clins",
   "far_clauses", "dfars_clauses", "subcontractors"}

\* the option_periods test of _merge_results
OptionPeriods(regex) ==
  IF "option_periods" \in DOMAIN regex
  THEN OrText(regex["option_periods"].value, <<>>) ELSE <<>>

\* the contract _merge_results returns
_merge_results(regex, llm) ==
  LET Typed(contract_type, value) ==
        [contract_number |-> OrText(_get_regex(regex, "contract_number"), UNKNOWN),
         contract_type |-> contract_type,
         contract_type_name |->
           IF Len(contract_type) = 1 /\ contract_type[1] \in DOMAIN CONTRACT_TYPE_NAMES
           THEN CONTRACT_TYPE_NAMES[contract_type[1]] ELSE contract_type,
         agency |-> IF _get_regex(regex, "agency") # None
                    THEN _get_regex(regex, "agency")[1]
                    ELSE [code |-> <<"UNKNOWN">>, name |-> <<"Unknown Agency">>],
         contracting_officer |-> OrText(_get_regex(regex, "contracting_officer"), <<>>),
         contractor |->
           [name |-> OrText(_get_regex(regex, "contractor_name"),
                            <<"Unknown Contractor">>),
            cage |-> OrText(_get_regex(regex, "cage"), <<>>),
            size |-> OrText(_get_regex(regex, "size"), <<"unknown">>),
            uei |-> OrText(_get_regex(regex, "uei"), <<>>)],
         naics_code |-> OrText(_get_regex(regex, "naics_code"), <<>>),
         psc_code |-> OrText(_get_regex(regex, "psc_code"), <<>>),
         idiq_vehicle |-> None,
         parent_idiq |-> None,
         value |-> value,
         ceiling_value |-> _get_regex(regex, "ceiling_value"),
         funded_amount |-> OrNumber(_get_regex(regex, "funded_amount"), value),
         period_of_performance |->
           [base_period_start |-> OrText(_get_regex(regex, "base_period_start"), <<>>),
            base_period_end |-> OrText(_get_regex(regex, "base_period_end"), <<>>),
            base_period_months |->
              OrNumber(_get_regex(regex, "base_period_months"), 12),
            option_periods |-> OptionPeriods(regex)],
         clins |-> OrText(_get_regex(regex, "clins"), <<>>),
         clauses |-> [far |-> OrText(_get_regex(regex, "far_clauses"), <<>>),
                      dfars |-> OrText(_get_regex(regex, "dfars_clauses"), <<>>)],
         subcontractor_requirements |->
           OrText(_get_regex(regex, "subcontractors"), <<>>),
         scope_of_work |-> llm.scope_of_work,
         security_requirements |-> llm.security_requirements,
         special_provisions |-> llm.special_provisions,
         domain |-> llm.domain]
  IN  Typed(OrText(_get_regex(regex, "contract_type"), <<"FFP">>),
            OrNumber(_get_regex(regex, "value"), 0))

\* what _merge_results records in the report
MergeReport(regex, llm, rep) ==
  LET Sources(by_regex, by_llm) ==
        [rep EXCEPT
           !.regex_extracted = @ + Cardinality(by_regex),
           !.llm_extracted = @ + Cardinality(by_llm),
           !.field_sources =
             dict_update(@, [f \in by_regex \cup by_llm |->
                               IF f \in by_regex THEN "regex" ELSE "llm"])]
  IN  Sources({f \in RegexFields : _get_regex(regex, f) # None}
                \cup (IF OptionPeriods(regex) # <<>> THEN {"option_periods"} ELSE {}),
              {f \in {"scope_of_work", "security_requirements", "special_provisions"} :
                 llm[f] # <<>>})

\* Path(filename).stem, on a file name spelled character by character
Stem(fname) ==
  LET Suffix(name, dots) ==
        IF dots # {} /\ Max(dots) > 1 /\ Max(dots) < Len(name)
        THEN SubSeq(name, 1, Max(dots) - 1) ELSE name
      Name(slashes) ==
        IF slashes = {} THEN fname ELSE SubSeq(fname, Max(slashes) + 1, Len(fname))
      Final(name) == Suffix(name, {i \in 1..Len(name) : name[i] = "."})
  IN  Final(Name({i \in 1..Len(fname) : fname[i] = "/"}))

\* the contract _fill_defaults returns; id is hash(contract_number) % 100000
_fill_defaults(c, fname, id) ==
  [k \in DOMAIN c \cup {"is_dod", "synthetic", "id"} |->
     CASE k = "contract_number" ->
            IF c.contract_number = UNKNOWN /\ Len(Stem(fname)) > 5
            THEN Stem(fname) ELSE c.contract_number
       [] k = "is_dod" -> Len(c.agency.code) = 1 /\ c.agency.code[1] \in DOD_AGENCIES
       [] k = "synthetic" -> FALSE
       [] k = "id" -> id
       [] OTHER -> c[k]]

\* field_sources.setdefault(k, v)
setdefault(d, k, v) == IF k \in DOMAIN d THEN d ELSE dict_set(d, k, v)

\* what _fill_defaults records in the report, statement by statement
FillReport(c, fname, rep) ==
  LET Dates(r) ==
        IF c.period_of_performance.base_period_start = <<>>
        THEN [r EXCEPT !.warnings = Append(@, <<"Period of performance dates not found">>)]
        ELSE r
      Scope(r) ==
        Dates(IF c.scope_of_work = <<>>
              THEN [r EXCEPT !.warnings = Append(@, <<"Scope of work not found">>),
                             !.defaulted = @ + 1,
                             !.field_sources = setdefault(@, "scope_of_work", "default")]
              ELSE r)
      Clins(r) ==
        Scope(IF c.clins = <<>>
              THEN [r EXCEPT !.warnings = Append(@, <<"No CLINs found">>)] ELSE r)
      Value(r) ==
        Clins(IF c.value = 0
              THEN [r EXCEPT !.warnings = Append(@, <<"Contract dollar value not found">>),
                             !.defaulted = @ + 1,
                             !.field_sources = setdefault(@, "value", "default")]
              ELSE r)
      Officer(r) ==
        Value(IF c.contracting_officer = <<>>
              THEN [r EXCEPT !.warnings = Append(@, <<"Contracting officer name not found">>),
                             !.defaulted = @ + 1,
                             !.field_sources = setdefault(@, "contracting_officer", "default")]
              ELSE r)
      Warned(r) ==
        IF Len(Stem(fname)) > 5
        THEN [r EXCEPT !.warnings =
                Append(@, <<"Contract number not found in text; using filename:", SP>>
                          \o Stem(fname))]
        ELSE r
  IN  Officer(IF c.contract_number = UNKNOWN
              THEN [Warned(rep) EXCEPT
                      !.defaulted = @ + 1,
                      !.field_sources = dict_set(@, "contract_number", "default")]
              ELSE rep)

\* the report statistics at the end of extract_contract_from_docx
ReportStats(regex, llm, rep) ==
  LET RECURSIVE Sum(_)
      Sum(fs) == LET Add(f) == regex[f].confidence + Sum(fs \ {f})
                 IN  IF fs = {} THEN 0 ELSE Add(CHOOSE x \in fs : TRUE)
      Average(fs, n) ==
        IF Cardinality(fs) + n = 0 THEN <<0, 1>>
        ELSE <<Sum(fs) + n * llm.confidence, Cardinality(fs) + n>>
  IN  [rep EXCEPT
         !.confidence_avg =
           Average({f \in DOMAIN regex : regex[f].confidence > 0},
                   IF llm.confidence > 0 THEN 1 ELSE 0),
         !.total_fields = rep.regex_extracted + rep.llm_extracted + rep.defaulted]

(***************************************************************************)
(* Input documents: lines of the canonical layout and lines that deviate   *)
(* from it, written one after the other                                    *)
(***************************************************************************)
MaxLines == 3

BLANK == <<>>
MarkerLine(k) == <<SECTION_PATTERNS[k][1]>>
SOW_LINE   == <<"--- STATEMENT OF WORK ---">>
VALUE_LINE == <<"--- TOTAL CONTRACT VALUE ---">>
CLINS_LINE == <<"--- CONTRACT LINE ITEMS (CLINs) ---">>
FAR_LINE   == <<"--- APPLICABLE FAR CLAUSES ---">>
DFARS_LINE == <<"--- APPLICABLE DFARS CLAUSES ---">>
SUBS_LINE  == <<"--- SUBCONTRACTOR REQUIREMENTS ---">>
END_LINE   == <<END_MARKER>>
BODY_LINE  == <<SP, SP, "text">>
NUMBER_LINE  == <<"CONTRACT NUMBER:", SP, "TEST-001">>
OFFICER_LINE == <<"CONTRACTING OFFICER:", SP, "Jane", SP, "Doe">>
OFFICER_EMPTY_LINE == <<"CONTRACTING OFFICER:", SP>>
AGENCY_LINE  == <<"CONTRACTING AGENCY:", SP, "Department of Defense", SP, "(", "DOD", ")">>
TYPE_LINE    == <<"CONTRACT TYPE:", SP, "Firm-Fixed-Price", SP, "(", "FFP", ")">>
FUNDED_LINE  == <<"Funded Amount:", SP, "$", "3", ",", "5", "0", "0", ".", "0", "0">>
FUNDED_TBD_LINE == <<"Funded Amount:", SP, "TBD">>
BASE_LINE    == <<"Base Period Value:", SP, "$", "1", "2", ".", "5", "0">>
CEILING_LINE == <<"Contract Ceiling:", SP, "$", "0", ".", "0", "0">>
FAR_CLAUSE_LINE    == <<SP, SP, "FAR", SP, "52.202-1", SP, "-", SP, "Definitions">>
FAR_CLAUSE2_LINE   == <<SP, SP, "FAR", SP, "52.204-21", SP, "-", SP, "Basic", SP, "Safeguarding">>
FAR_UNTITLED_LINE  == <<SP, SP, "FAR", SP, "52.204-21", SP, "-", SP>>
DFARS_FLOWDOWN_LINE == <<SP, SP, "DFARS", SP, "252.204-7012", SP, "-", SP, "Safeguarding",
                         SP, FLOWDOWN>>
DFARS_PLAIN_LINE   == <<SP, SP, "DFARS", SP, "252.227-7013", SP, "-", SP, "Rights">>
DFARS_FLUSH_LINE   == <<"DFARS", SP, "252.204-7012", SP, "-", SP, "Safeguarding", SP, FLOWDOWN>>
CLIN_LINE  == <<SP, SP, "CLIN", SP, "0001", ":", SP, "Support">>
SUB_LINE   == <<SP, SP, "Subcontractor:", SP, "DataForge", SP, "(", "CAGE:", SP, "3F7P2", ")">>
PREFIXED_FAR_LINE == <<"[Contract:", SP, "TEST-001", "]", SP, "--- APPLICABLE FAR CLAUSES ---">>

SectionLines == {BLANK, BODY_LINE, NUMBER_LINE, END_LINE, SOW_LINE, FAR_LINE, CLINS_LINE,
                 SUBS_LINE, FAR_CLAUSE_LINE, CLIN_LINE, SUB_LINE, PREFIXED_FAR_LINE}

ClauseLines == {BLANK, <<SP, SP, SP, SP, "text">>, FAR_LINE, DFARS_LINE, FAR_CLAUSE_LINE,
                FAR_CLAUSE2_LINE, FAR_UNTITLED_LINE, DFARS_FLOWDOWN_LINE, DFARS_PLAIN_LINE,
                DFARS_FLUSH_LINE}

HeaderLines == {BLANK, NUMBER_LINE, OFFICER_LINE, OFFICER_EMPTY_LINE, TYPE_LINE, VALUE_LINE,
                FUNDED_LINE, FUNDED_TBD_LINE, BASE_LINE, CEILING_LINE, CLINS_LINE, CLIN_LINE,
                END_LINE}

(***************************************************************************)
(* Document validation (docx_parser.py)                                    *)
(***************************************************************************)
\* a piece of text by its lengths: all of it, and the whitespace it starts
\* and ends with (a piece of whitespace only starts and ends with all of it)
Piece(lead, core, trail) ==
  [len |-> lead + core + trail,
   lead |-> IF core = 0 THEN lead + trail ELSE lead,
   trail |-> IF core = 0 THEN lead + trail ELSE trail,
   blank |-> core = 0]

\* a + b
Concat(a, b) ==
  [len |-> a.len + b.len,
   lead |-> IF a.blank THEN a.len + b.lead ELSE a.lead,
   trail |-> IF b.blank THEN b.len + a.trail ELSE b.trail,
   blank |-> a.blank /\ b.blank]

\* len(a.strip())
StrippedLen(a) == IF a.blank THEN 0 ELSE a.len - a.lead - a.trail

\* text_content of validate_docx: the paragraph texts are appended until the
\* content is longer than 100 characters
RECURSIVE TextContent(_, _, _)
TextContent(paragraphs, i, text_content) ==
  IF i > Len(paragraphs) \/ text_content.len > 100 THEN text_content
  ELSE TextContent(paragraphs, i + 1, Concat(text_content, paragraphs[i]))

CANNOT_READ ==
  <<"Cannot read file as a Word document:", SP>>
TOO_LITTLE_TEXT ==
  <<"Word document appears to be empty or contains very little text.", SP,
    "Please upload a contract document with substantive content.">>

\* validate_docx without the test of the text length
validate_docx_readable_only(file) ==
  IF file.opens # None
  THEN [is_valid |-> FALSE, error |-> CANNOT_READ \o file.opens[1]]
  ELSE [is_valid |-> TRUE, error |-> <<>>]

\* validate_docx: file.opens is None when _open_docx returns a document and
\* the text of the exception when it raises
validate_docx(file) ==
  IF file.opens # None
  THEN [is_valid |-> FALSE, error |-> CANNOT_READ \o file.opens[1]]
  ELSE IF StrippedLen(TextContent(file.paragraphs, 1, Piece(0, 0, 0))) < 50
  THEN [is_valid |-> FALSE, error |-> TOO_LITTLE_TEXT]
  ELSE [is_valid |-> TRUE, error |-> <<>>]

(***************************************************************************)
(* Line items and subcontractors (regex_extractors.py)                     *)
(***************************************************************************)
\* what a call gives its caller: a value, or an exception
Returned(value) == [raised |-> FALSE, value |-> value]
Raised(exception) == [raised |-> TRUE, exception |-> exception]

\* float(s) for s of the characters [\d.], in cents: None when float() raises
\* ValueError (no digit, or more than one point)
float(s) ==
  LET Parsed(points) ==
        IF Cardinality(points) > 1 \/ ~\E i \in 1..Len(s) : IsDigit(s[i]) THEN None
        ELSE IF points = {} THEN Some(FloatCents(s, <<>>))
        ELSE Some(FloatCents(SubSeq(s, 1, Min(points) - 1),
                             SubSeq(s, Min(points) + 1, Len(s))))
  IN  Parsed({i \in 1..Len(s) : s[i] = "."})

\* s.replace(",", "")
NoCommas(s) == SelectSeq(s, LAMBDA ch : ch # ",")

COULD_NOT_CONVERT == <<"could not convert string to float">>

\* the dict extract_clins builds for one match of its pattern; the groups of
\* the optional second line are None together (match.detail = None); None when
\* a float() raises
Clin(match) ==
  LET Converted(quantity, unit_price, total_price) ==
        IF quantity = None \/ unit_price = None \/ total_price = None THEN None
        ELSE Some([clin_number |-> match.clin_number,
                   description |-> strip(match.description),
                   type |-> strip(match.detail[1].type),
                   quantity |-> quantity[1] \div 100,
                   unit |-> match.detail[1].unit,
                   unit_price |-> unit_price[1],
                   total_price |-> total_price[1]])
  IN  IF match.detail = None
      THEN Some([clin_number |-> match.clin_number,
                 description |-> strip(match.description),
                 type |-> <<"FFP">>, quantity |-> 1, unit |-> <<"Lot">>,
                 unit_price |-> 0, total_price |-> 0])
      ELSE Converted(float(match.detail[1].quantity),
                     float(NoCommas(match.detail[1].unit_price)),
                     float(NoCommas(match.detail[1].total_price)))

\* extract_clins on the matches of clin_pattern in a document without tables
extract_clins(matches) ==
  LET Collected(clins) ==
        IF \E i \in 1..Len(clins) : clins[i] = None THEN Raised(COULD_NOT_CONVERT)
        ELSE Returned(ExtractionResult(Some([i \in 1..Len(clins) |-> clins[i][1]]),
                                       IF clins = <<>> THEN 0 ELSE 85))
  IN  Collected([i \in 1..Len(matches) |-> Clin(matches[i])])

\* str.lower() of the business sizes
lower(s) ==
  [i \in 1..Len(s) |->
     CASE s[i] = "Small" -> "small" [] s[i] = "Large" -> "large" [] OTHER -> s[i]]

\* s.rstrip(ch)
RECURSIVE rstrip(_, _)
rstrip(s, ch) ==
  IF s # <<>> /\ s[Len(s)] = ch THEN rstrip(SubSeq(s, 1, Len(s) - 1), ch) ELSE s

\* the dict extract_subcontractors builds for one match of its pattern (a
\* group that did not take part in the match is None); None when float() raises
Subcontractor(match, clause_nums) ==
  LET Converted(estimated_value) ==
        IF estimated_value = None THEN None
        ELSE Some([subcontractor_name |-> rstrip(strip(match.name), "("),
                   cage_code |-> OrText(match.cage_code, <<>>),
                   business_size |-> lower(OrText(match.business_size, <<"small">>)),
                   estimated_value |-> estimated_value,
                   scope |-> strip(OrText(match.scope, <<>>)),
                   flowdown_clauses |-> clause_nums])
  IN  Converted(IF match.value = None THEN Some(0) ELSE float(NoCommas(match.value[1])))

\* extract_subcontractors on the matches of sub_pattern and the clause numbers
\* of the document's flowdown line
extract_subcontractors(matches, clause_nums) ==
  LET Collected(subs) ==
        IF \E i \in 1..Len(subs) : subs[i] = None THEN Raised(COULD_NOT_CONVERT)
        ELSE Returned(ExtractionResult(Some([i \in 1..Len(subs) |-> subs[i][1]]),
                                       IF subs = <<>> THEN 0 ELSE 80))
  IN  Collected([i \in 1..Len(matches) |-> Subcontractor(matches[i], clause_nums)])

(***************************************************************************)
(* Dollar values (regex_extractors.py)                                     *)
(***************************************************************************)
\* field_patterns: <<field name, the label tokens in which the labels of the
\* pattern are found with nothing but the colon behind them>>
field_patterns == <<
  <<"value", {"Base Period Value:", "Total Contract Value:", "Contract Value:",
              "Base Value:"}>>,
  <<"ceiling_value", {"Contract Ceiling:", "Ceiling Value:", "Ceiling Amount:",
                      "Maximum Value:"}>>,
  <<"funded_amount", {"Funded Amount:", "Amount Funded:", "Obligated Amount:",
                      "Funded Value:"}>> >>

\* ([\d,]+(?:\.\d{2})?) tried at position p: whether it matches, and float() of
\* the group without its commas, in cents (None when float() raises)
AmountAt(s, p) ==
  LET Float(whole, frac) ==
        IF whole = <<>> /\ frac = <<>> THEN None ELSE Some(FloatCents(whole, frac))
      Group(e) ==
        [ok |-> TRUE,
         amount |-> Float(SelectSeq(SubSeq(s, p, e), IsDigit),
                          IF /\ e + 3 <= Len(s)
                             /\ s[e + 1] = "."
                             /\ IsDigit(s[e + 2])
                             /\ IsDigit(s[e + 3])
                          THEN SubSeq(s, e + 2, e + 3) ELSE <<>>)]
      Run(stop) == Group(IF stop = {} THEN Len(s) ELSE Min(stop) - 1)
  IN  IF p <= Len(s) /\ (IsDigit(s[p]) \/ s[p] = ",")
      THEN Run({j \in p..Len(s) : ~(IsDigit(s[j]) \/ s[j] = ",")})
      ELSE [ok |-> FALSE, amount |-> None]

\* [:\s]*\$?([\d,]+(?:\.\d{2})?) tried at position p
LabeledAmountAt(s, p) ==
  LET Dollar(q) == AmountAt(s, IF q <= Len(s) /\ s[q] = "$" THEN q + 1 ELSE q)
      Skip(rest) == Dollar(IF rest = {} THEN Len(s) + 1 ELSE Min(rest))
  IN  Skip({q \in p..Len(s) : ~(IsSpace(s[q]) \/ s[q] = ":")})

\* re.findall(\$\s*([\d,]+(?:\.\d{2})?), s): float() of each group
AllAmounts(s) ==
  LET Found(p) == AmountAt(s, WsRunEnd(s, p + 1))
      At(hits) == [n \in 1..Len(hits) |-> Found(hits[n]).amount]
  IN  At(SelectSeq([i \in 1..Len(s) |-> i], LAMBDA i : s[i] = "$" /\ Found(i).ok))

\* extract_dollar_values: the results by field name
extract_dollar_values(s) ==
  LET Labeled(hits) ==
        IF hits = {} THEN None ELSE LabeledAmountAt(s, Min(hits) + 1).amount
      \* float() of group 1 of re.search(pattern, s, re.IGNORECASE); None when
      \* nothing matches or float() raises
      Search(labels) ==
        Labeled({i \in 1..Len(s) : s[i] \in labels /\ LabeledAmountAt(s, i + 1).ok})
      Results(found) ==
        [f \in {field_patterns[n][1] : n \in found} |->
           ExtractionResult(
             Search(field_patterns[CHOOSE n \in found : field_patterns[n][1] = f][2]), 90)]
      Largest(amounts) ==
        CHOOSE a \in amounts : \A b \in amounts : b[1] <= a[1]
      Fallback_to(results, amounts) ==
        IF results = EmptyDict /\ amounts # <<>>
           /\ \A n \in 1..Len(amounts) : amounts[n] # None
        THEN dict_set(results, "value",
                      ExtractionResult(Largest({amounts[n] : n \in 1..Len(amounts)}), 50))
        ELSE results
  IN  Fallback_to(Results({n \in 1..Len(field_patterns) : Search(field_patterns[n][2]) # None}),
                  AllAmounts(s))

\* documents with dollar values: labeled amounts, a label without an amount,
\* a label alone on its line, amounts without a label, a number that is no
\* amount
CEILING_ALONE_LINE == <<"Contract Ceiling:">>
FUNDED_ALONE_LINE  == <<"Funded Amount:", SP>>
FEE_LINE    == <<"Fee", SP, "$", "9", "0", "0">>
BOND_LINE   == <<"Bond", SP, "$", SP, "5", ",", "0", "0", "0", ".", "0", "0">>
MONTHS_LINE == <<"1", "2", SP, "months">>
DollarLines == {BASE_LINE, CEILING_LINE, FUNDED_LINE, FUNDED_TBD_LINE, CEILING_ALONE_LINE,
                FUNDED_ALONE_LINE, FEE_LINE, BOND_LINE, MONTHS_LINE}

(***************************************************************************)
(* Narrative fields (llm_extractors.py)                                    *)
(***************************************************************************)
\* the three backquotes of a markdown code fence, as one token
FENCE == "<fence>"

\* re.sub of the opening fence: the fence, "json" if it follows, whitespace
StripOpeningFence(content) ==
  LET Rest(i) == SubSeq(content, WsRunEnd(content, i), Len(content))
  IN  IF ~startswith(content, FENCE) THEN content
      ELSE IF Len(content) >= 2 /\ content[2] = "json" THEN Rest(3)
      ELSE Rest(2)

\* re.sub of the closing fence: whitespace and the fence at the end
StripClosingFence(content) ==
  LET Before(spaces) ==
        SubSeq(content, 1, IF spaces = {} THEN 0 ELSE Max(spaces))
  IN  IF content = <<>> \/ content[Len(content)] # FENCE THEN content
      ELSE Before({i \in 1..(Len(content) - 1) : ~IsSpace(content[i])})

\* the JSON documents of the model, each one token of a response, and what
\* json.loads gives for them
JSON_OBJECT  == "{\"scope_of_work\": \"Zero trust rollout\", \"security_requirements\": [\"TS/SCI\"], \"special_provisions\": [], \"domain\": \"cybersecurity\"}"
JSON_PARTIAL == "{\"scope_of_work\": null}"
JSON_LIST    == "[]"

JsonValue ==
  [document \in {JSON_OBJECT, JSON_PARTIAL, JSON_LIST} |->
     CASE document = JSON_OBJECT ->
            [object |-> TRUE,
             members |-> [scope_of_work |-> <<"Zero", SP, "trust", SP, "rollout">>,
                          security_requirements |-> <<<<"TS/SCI">>>>,
                          special_provisions |-> <<>>,
                          domain |-> <<"cybersecurity">>]]
       [] document = JSON_PARTIAL ->
            [object |-> TRUE, members |-> [scope_of_work |-> None]]
       [] document = JSON_LIST ->
            [object |-> FALSE, members |-> EmptyDict]]

\* json.loads(content): the value, or None when it raises JSONDecodeError
\* (whitespace around the document is allowed)
json_loads(content) ==
  IF Len(strip(content)) = 1 /\ strip(content)[1] \in DOMAIN JsonValue
  THEN Some(JsonValue[strip(content)[1]])
  ELSE None

\* dict.get(key, default)
get(d, key, default) == IF key \in DOMAIN d THEN d[key] ELSE default

JSON_DECODE_ERROR == <<"Expecting value: line 1 column 1 (char 0)">>
NO_ATTRIBUTE_GET  == <<"'list' object has no attribute 'get'">>

\* _extract_with_keywords: found is what the keyword scans return for the text
_extract_with_keywords(found) ==
  [scope_of_work |-> found.scope_of_work,
   security_requirements |-> found.security_requirements,
   special_provisions |-> found.special_provisions,
   domain |-> found.domain,
   confidence |-> 30]

\* the except branch of _extract_with_llm without the tag
Fallback_untagged(found, exception) == _extract_with_keywords(found)

\* the except branch of _extract_with_llm
Fallback(found, exception) ==
  dict_set(_extract_with_keywords(found), "llm_error", exception)

\* _extract_with_llm: service.raises is the text of the exception of the
\* import, the client or the call, or None; service.content is response.content
_extract_with_llm(found, service) ==
  LET Loaded(result) ==
        IF result = None THEN Fallback(found, JSON_DECODE_ERROR)
        ELSE IF ~result[1].object THEN Fallback(found, NO_ATTRIBUTE_GET)
        ELSE [scope_of_work |-> get(result[1].members, "scope_of_work", None),
              security_requirements |->
                get(result[1].members, "security_requirements", <<>>),
              special_provisions |-> get(result[1].members, "special_provisions", <<>>),
              domain |-> get(result[1].members, "domain", None),
              confidence |-> 85]
      Cleaned(content) ==
        Loaded(json_loads(IF startswith(content, FENCE)
                          THEN StripClosingFence(StripOpeningFence(content))
                          ELSE content))
  IN  IF service.raises # None THEN Fallback(found, service.raises[1])
      ELSE Cleaned(strip(service.content))

\* extract_freeform_fields; api_key is None, or Some(key) with key possibly ""
extract_freeform_fields(found, mode, key, service) ==
  IF mode = "anthropic" /\ key # None /\ key # Some(<<>>)
  THEN _extract_with_llm(found, service)
  ELSE _extract_with_keywords(found)

(***************************************************************************)
(* Input uploads: what extract_all_regex and extract_freeform_fields       *)
(* return for a document, and the name of the uploaded file                *)
(***************************************************************************)
MaxClauses == 2

\* extract_contract_number: no match, and a labeled match
NUMBER_ABSENT  == ExtractionResult(None, 0)
NUMBER_LABELED == ExtractionResult(Some(<<"W912HQ-24-C-0001">>), 95)

\* "ACME-7.docx", "DRAFT 1 .docx", "abcde.docx"
PLAIN_NAME  == <<"A", "C", "M", "E", "-", "7", ".", "d", "o", "c", "x">>
PADDED_NAME == <<"D", "R", "A", "F", "T", SP, "1", SP, ".", "d", "o", "c", "x">>
SHORT_NAME  == <<"a", "b", "c", "d", "e", ".", "d", "o", "c", "x">>

\* <<contract number result, filename>>; the filename only matters without a number
Uploads ==
  {<<NUMBER_LABELED, PLAIN_NAME>>, <<NUMBER_ABSENT, PLAIN_NAME>>,
   <<NUMBER_ABSENT, PADDED_NAME>>, <<NUMBER_ABSENT, SHORT_NAME>>}

\* clause entries as extract_far_clauses and extract_dfars_clauses build them
\* (a DFARS entry without the flowdown key has flowdown FALSE)
FarEntry(number, title) ==
  [number |-> <<number>>, title |-> title, text |-> <<>>, prescription |-> <<>>]
DfarsEntry(number, title, flowdown) ==
  [number |-> <<number>>, title |-> title, text |-> <<>>, prescription |-> <<>>,
   flowdown |-> flowdown]

FarEntries ==
  {FarEntry("52.202-1", <<"Definitions">>),
   FarEntry("52.204-21", <<"Basic", SP, "Safeguarding">>),
   FarEntry("52.202-1", <<>>),
   FarEntry("52.204-21", <<>>)}

DfarsEntries ==
  {DfarsEntry("252.204-7012", <<"Safeguarding">>, TRUE),
   DfarsEntry("252.227-7013", <<"Rights">>, FALSE)}

\* the lists the extractors can return: labeled matches, of which only the last
\* can have an empty title, or distinct bare numbers without titles
Extractable(l) ==
  \/ \A i \in 1..Len(l) : l[i].title = <<>> => i = Len(l)
  \/ /\ \A i \in 1..Len(l) : l[i].title = <<>>
     /\ \A i, j \in 1..Len(l) : l[i].number = l[j].number => i = j

FarLists ==
  {l \in UNION {[1..n -> FarEntries] : n \in 0..MaxClauses} : Extractable(l)}

DfarsLists ==
  {l \in UNION {[1..n -> DfarsEntries] : n \in 0..MaxClauses} :
     \A i, j \in 1..Len(l) : l[i].number = l[j].number => i = j}

\* a clause extractor's result: confidence 0.9 if clauses else 0.0
ClauseResult(l) == ExtractionResult(Some(l), IF l = <<>> THEN 0 ELSE 90)

\* a match of clin_pattern with its second line, and one of sub_pattern with
\* all its groups: "CLIN 0001: Support" / "Type: FFP | Qty: <quantity> Lot |
\* Unit Price: $<price> | Total: $<price>", and "Subcontractor: D(CAGE: 3F7P2)
\* ... Business Size: Small ... Estimated Value: $<value> ... Scope: Hosting"
ClinMatch(quantity, price) ==
  [clin_number |-> <<"0001">>, description |-> <<"Support">>,
   detail |-> Some([type |-> <<"FFP">>, quantity |-> quantity, unit |-> <<"Lot">>,
                    unit_price |-> price, total_price |-> price])]
SubMatch(value) ==
  [name |-> <<"D">>, cage_code |-> Some(<<"3F7P2">>), business_size |-> Some(<<"Small">>),
   value |-> Some(value), scope |-> Some(<<"Hosting">>)]

\* a document in which the other extractors find nothing, and one in which they
\* find everything
BARE ==
  [regex |->
     [agency |-> ExtractionResult(None, 0),
      contract_type |-> ExtractionResult(None, 0),
      contracting_officer |-> ExtractionResult(None, 0),
      naics_code |-> ExtractionResult(None, 0),
      psc_code |-> ExtractionResult(None, 0)],
   clin_matches |-> <<>>,
   sub_matches |-> <<>>,
   clause_nums |-> <<>>,
   found |->
     [scope_of_work |-> <<>>, security_requirements |-> <<>>, special_provisions |-> <<>>,
      domain |-> <<>>]]

FULL ==
  [regex |->
     [agency |-> ExtractionResult(
                   Some([code |-> <<"DOD">>, name |-> <<"Department of Defense">>]), 90),
      contract_type |-> ExtractionResult(Some(<<"CPFF">>), 90),
      contracting_officer |-> ExtractionResult(Some(<<"Jane", SP, "Doe">>), 85),
      naics_code |-> ExtractionResult(Some(<<"541512">>), 90),
      psc_code |-> ExtractionResult(Some(<<"D302">>), 85),
      value |-> ExtractionResult(Some(1250), 90),
      ceiling_value |-> ExtractionResult(Some(123456789), 90),
      funded_amount |-> ExtractionResult(Some(350000), 90),
      base_period_start |-> ExtractionResult(Some(<<"2024-01-01">>), 90),
      base_period_end |-> ExtractionResult(Some(<<"2025-12-31">>), 90),
      base_period_months |-> ExtractionResult(Some(24), 85),
      option_periods |-> ExtractionResult(
                  Some(<<[option_number |-> 1, start_date |-> <<"2026-01-01">>,
                          end_date |-> <<"2026-12-31">>, months |-> 12]>>), 85),
      contractor_name |-> ExtractionResult(Some(<<"Acme", SP, "Corp">>), 85),
      cage |-> ExtractionResult(Some(<<"1ABC2">>), 90),
      uei |-> ExtractionResult(Some(<<"J7M9HPTGJ1S8">>), 90),
      size |-> ExtractionResult(Some(<<"small">>), 85)],
   clin_matches |-> <<ClinMatch(<<"1", ".", "5">>, <<"1", ",", "0", "0", "0", ".", "0", "0">>)>>,
   sub_matches |-> <<SubMatch(<<"4", ",", "5", "0", "0", ".", "0", "0">>)>>,
   clause_nums |-> <<<<"52.204-21">>, <<"252.204-7012">>>>,
   found |->
     [scope_of_work |-> <<"Cloud", SP, "migration", SP, "services">>,
      security_requirements |-> <<<<"Secret", SP, "clearance">>>>,
      special_provisions |-> <<<<"Key", SP, "personnel">>>>,
      domain |-> <<"it_modernization">>]]

\* documents in which the only amount is an unlabeled one (the fallback of
\* extract_dollar_values), and in which a line item, a subcontractor has a
\* number that float() does not take: "Qty: 1.2.3", "Estimated Value: $4.500.00"
UNLABELED_VALUE ==
  [BARE EXCEPT !.regex = dict_set(@, "value", ExtractionResult(Some(500000), 50))]
BAD_QUANTITY ==
  [BARE EXCEPT !.clin_matches =
     <<ClinMatch(<<"1", ".", "2", ".", "3">>, <<"1", ",", "0", "0", "0", ".", "0", "0">>)>>]
BAD_VALUE ==
  [BARE EXCEPT !.sub_matches = <<SubMatch(<<"4", ".", "5", "0", "0", ".", "0", "0">>)>>]

\* a document whose labeled funded amount is above its labeled ceiling
OVERFUNDED ==
  [FULL EXCEPT !.regex = dict_set(@, "ceiling_value", ExtractionResult(Some(200000), 90))]

\* a document whose labeled base value is $0.00
ZERO_VALUE ==
  [BARE EXCEPT !.regex = dict_set(@, "value", ExtractionResult(Some(0), 90))]

Extractions == {BARE, FULL}
AllExtractions ==
  {BARE, FULL, UNLABELED_VALUE, BAD_QUANTITY, BAD_VALUE, OVERFUNDED, ZERO_VALUE}

\* the clause lists of the documents of AllExtractions
FewFarLists == {<<>>, <<FarEntry("52.202-1", <<"Definitions">>)>>}
NoDfarsLists == {<<>>}

\* uploaded files: whether _open_docx raises, and the paragraphs that
\* validate_docx reads
File(paragraphs) == [opens |-> None, paragraphs |-> paragraphs]
LONG_FILE   == File(<<Piece(0, 40, 1), Piece(0, 80, 0)>>)
SHORT_VALID == File(<<Piece(1, 50, 1)>>)
NOT_A_DOCX  == [opens |-> Some(<<"File is not a zip file">>), paragraphs |-> <<>>]
EMPTY_FILE  == File(<<>>)
SHORT_FILE  == File(<<Piece(2, 20, 3), Piece(0, 0, 4), Piece(0, 22, 2)>>)
LATE_TEXT   == File(<<Piece(101, 0, 0), Piece(0, 80, 0)>>)

ValidFiles == {LONG_FILE}
Files == {LONG_FILE, SHORT_VALID, NOT_A_DOCX, EMPTY_FILE, SHORT_FILE, LATE_TEXT}

\* what happens when _extract_with_llm talks to the service: the import, the
\* client or the call raises, or a response with this content comes back
NoService == [raises |-> None, content |-> <<>>]
Raises(exception) == [raises |-> Some(<<exception>>), content |-> <<>>]
Responds(content) == [raises |-> None, content |-> content]

Services ==
  {Raises("No module named 'langchain_anthropic'"),
   Raises("Error code: 401 - invalid x-api-key"),
   Raises("Connection error."),
   Responds(<<JSON_OBJECT>>),
   Responds(<<NL, JSON_PARTIAL, SP>>),
   Responds(<<FENCE, "json", NL, JSON_OBJECT, NL, FENCE>>),
   Responds(<<FENCE, NL, JSON_PARTIAL, NL, FENCE, NL>>),
   Responds(<<JSON_LIST>>),
   Responds(<<"Here", SP, "is", SP, "the", SP, "JSON:", NL, JSON_OBJECT>>),
   Responds(<<>>)}

\* the arguments mode and api_key, with the service behind them
MOCK == [mode |-> "mock", api_key |-> None, service |-> NoService]
Anthropic(key, service) == [mode |-> "anthropic", api_key |-> key, service |-> service]
API_KEY == Some(<<"sk-ant-test">>)

MockCalls == {MOCK}
Calls ==
  {MOCK, Anthropic(None, NoService), Anthropic(Some(<<>>), NoService)}
  \cup {Anthropic(API_KEY, service) : service \in Services}

\* extract_all_regex
RegexResults(number, far, dfars, others) ==
  dict_update(others, [contract_number |-> number, far_clauses |-> ClauseResult(far),
                       dfars_clauses |-> ClauseResult(dfars)])

\* extract_all_regex on what the patterns match in the document: raises when
\* extract_clins or extract_subcontractors does
extract_all_regex(number, far, dfars, d) ==
  LET Combined(clins, subs) ==
        IF clins.raised THEN clins
        ELSE IF subs.raised THEN subs
        ELSE Returned(RegexResults(number, far, dfars,
                        dict_update(d.regex, [clins |-> clins.value,
                                              subcontractors |-> subs.value])))
  IN  Combined(extract_clins(d.clin_matches),
               extract_subcontractors(d.sub_matches, d.clause_nums))

\* hash(contract["contract_number"]) % 100000 differs from process to process
HashValues == {0, 99999}

\* hash(s) % 100000 in a process that has hashed the strings of table; id is
\* the value when s is hashed for the first time
hash(table, s, id) == IF s \in DOMAIN table THEN table[s] ELSE id

(***************************************************************************)
(* Upload manager and agent (upload_manager.py, contract_agent.py)         *)
(***************************************************************************)
REQUIRED_MARKERS == <<"CONTRACT NUMBER:">>

\* SECTION_MARKERS: for each pattern the marker tokens in which re.search
\* finds it; the line-item pattern has no closing dashes and is found in every
\* marker that begins with it
SECTION_MARKERS == <<
  {"--- APPLICABLE FAR CLAUSES ---"},
  {"--- APPLICABLE DFARS CLAUSES ---"},
  {"--- STATEMENT OF WORK ---"},
  {"--- CONTRACT LINE ITEMS (CLINs) ---", "--- CONTRACT LINE ITEMS ---"},
  {"--- CONTRACTOR INFORMATION ---"},
  {"--- SUBCONTRACTOR REQUIREMENTS ---"},
  {"--- SECURITY REQUIREMENTS ---"},
  {"--- SPECIAL CONTRACT PROVISIONS ---"} >>

\* len(s), in characters
RECURSIVE len(_)
len(s) == IF s = <<>> THEN 0 ELSE Len(s[1]) + len(Tail(s))

\* _validate_txt without its check for a section header
_validate_txt_any_sections(s) ==
  IF strip(s) = <<>>
  THEN [is_valid |-> FALSE, error |-> <<"File is empty.">>]
  ELSE IF len(strip(s)) < 100
  THEN [is_valid |-> FALSE,
        error |-> <<"File is too short to be a valid contract document.">>]
  ELSE IF \E m \in 1..Len(REQUIRED_MARKERS) : ~Contains(s, REQUIRED_MARKERS[m])
  THEN [is_valid |-> FALSE,
        error |-> <<"Missing required field: 'CONTRACT NUMBER'.", SP,
                    "Uploaded documents should follow the standard contract format",
                    SP, "with a CONTRACT NUMBER field.">>]
  ELSE [is_valid |-> TRUE, error |-> <<>>]

_validate_txt(s) ==
  IF strip(s) = <<>>
  THEN [is_valid |-> FALSE, error |-> <<"File is empty.">>]
  ELSE IF len(strip(s)) < 100
  THEN [is_valid |-> FALSE,
        error |-> <<"File is too short to be a valid contract document.">>]
  ELSE IF \E m \in 1..Len(REQUIRED_MARKERS) : ~Contains(s, REQUIRED_MARKERS[m])
  THEN [is_valid |-> FALSE,
        error |-> <<"Missing required field: 'CONTRACT NUMBER'.", SP,
                    "Uploaded documents should follow the standard contract format",
                    SP, "with a CONTRACT NUMBER field.">>]
  ELSE IF ~\E m \in 1..Len(SECTION_MARKERS) : \E tok \in SECTION_MARKERS[m] : Contains(s, tok)
  THEN [is_valid |-> FALSE,
        error |-> <<"No recognized contract", SP, "section", "s found.", SP,
                    "Expected at least one", SP, "section", SP,
                    "such as FAR CLAUSES, STATEMENT OF WORK, or CONTRACT LINE ITEMS.">>]
  ELSE [is_valid |-> TRUE, error |-> <<>>]

\* file contents: str (a text) or bytes (a file that may be a Word document)
Str(s) == [bytes |-> FALSE, content |-> s]
Bytes(file) == [bytes |-> TRUE, content |-> file]

\* _validate_docx: a str is taken by _open_docx for the path of a file
_validate_docx(file_content) ==
  IF file_content.bytes THEN validate_docx(file_content.content)
  ELSE validate_docx([opens |-> Some(<<"Package not found at '">> \o file_content.content
                                       \o <<"'">>),
                      paragraphs |-> <<>>])

\* Path(fname).suffix, on a file name spelled character by character
suffix(fname) ==
  LET Ext(name, dots) ==
        IF dots # {} /\ Max(dots) > 1 /\ Max(dots) < Len(name)
        THEN SubSeq(name, Max(dots), Len(name)) ELSE <<>>
      Last(slashes) ==
        IF slashes = {} THEN fname ELSE SubSeq(fname, Max(slashes) + 1, Len(fname))
      Of(name) == Ext(name, {i \in 1..Len(name) : name[i] = "."})
  IN  Of(Last({i \in 1..Len(fname) : fname[i] = "/"}))

validate_upload(file_content, fname) ==
  LET \* ext.lower() == ".docx"
      Docx(ext) ==
        /\ Len(ext) = 5
        /\ ext[1] = "."
        /\ ext[2] \in {"d", "D"} /\ ext[3] \in {"o", "O"}
        /\ ext[4] \in {"c", "C"} /\ ext[5] \in {"x", "X"}
  IN  IF Docx(IF fname # <<>> THEN suffix(fname) ELSE <<>>) \/ file_content.bytes
      THEN _validate_docx(file_content)
      ELSE _validate_txt(file_content.content)

\* save_uploaded_file: the path written and the files after the call
save_uploaded_file(files, file_content, fname, save_directory, time) ==
  LET Written(save_path) ==
        [path |-> save_path, disk |-> dict_set(files, save_path, file_content.content)]
      \* datetime.now().strftime("%Y%m%d_%H%M%S") at a time in seconds
      strftime(now) == <<ToString(now)>>
  IN  IF <<save_directory, fname>> \in DOMAIN files
      THEN Written(<<save_directory,
                     Stem(fname) \o <<"_">> \o strftime(time)
                       \o (IF suffix(fname) # <<>> THEN suffix(fname)
                           ELSE <<".", "t", "x", "t">>)>>)
      ELSE Written(<<save_directory, fname>>)

\* chunks_to_langchain_documents, and the metadata the caller adds to each
\* document
chunks_to_langchain_documents(chunk_list, added) ==
  [i \in 1..Len(chunk_list) |->
     [page_content |-> chunk_list[i].text,
      metadata |->
        dict_update(
          dict_update(
            dict_update([contract_number |-> chunk_list[i].contract_number,
                         section |-> chunk_list[i].section,
                         chunk_type |-> chunk_list[i].chunk_type],
                        chunk_list[i].metadata),
            [k \in {x \in {"clause_number", "clause_title"} : chunk_list[i][x] # None} |->
               chunk_list[i][k][1]]),
          added)]]

\* process_upload that indexes the chunks before it looks at their number
process_upload_index_first(s, fname, store, files, time) ==
  LET Indexed(saved, chunked) ==
        [returned |-> [saved_path |-> saved.path, num_chunks |-> 0,
                       num_vectors_added |-> 0, chunk_types |-> EmptyDict,
                       contract_number |-> UNKNOWN,
                       error |-> <<"No chunks could be extracted from the document.">>],
         vector_store |-> store \o <<[page_content |-> s, metadata |-> EmptyDict]>>,
         disk |-> saved.disk,
         chunked |-> chunked]
  IN  Indexed(save_uploaded_file(files, Str(s), fname, "documents", time), chunk_contract(s))

\* process_upload: the dict returned, the vector store and the files after the
\* call, and the chunk_contract call it made
process_upload(s, fname, store, files, time) ==
  LET \* chunk_types: the number of chunks of each chunk type
      ChunkTypes(chunk_list) ==
        [t \in {chunk_list[i].chunk_type : i \in 1..Len(chunk_list)} |->
           Cardinality({i \in 1..Len(chunk_list) : chunk_list[i].chunk_type = t})]
      Indexed(saved, chunked, documents) ==
        IF chunked.chunks = <<>>
        THEN [returned |-> [saved_path |-> saved.path, num_chunks |-> 0,
                            num_vectors_added |-> 0, chunk_types |-> EmptyDict,
                            contract_number |-> UNKNOWN,
                            error |-> <<"No chunks could be extracted from the document.">>],
              vector_store |-> store,
              disk |-> saved.disk,
              chunked |-> chunked]
        ELSE [returned |-> [saved_path |-> saved.path,
                            num_chunks |-> Len(chunked.chunks),
                            num_vectors_added |-> Len(documents),
                            chunk_types |-> ChunkTypes(chunked.chunks),
                            contract_number |-> chunked.chunks[1].contract_number],
              vector_store |-> store \o documents,
              disk |-> saved.disk,
              chunked |-> chunked]
      Chunked(saved, chunked) ==
        Indexed(saved, chunked,
                chunks_to_langchain_documents(chunked.chunks,
                  [source_file |-> fname, upload_time |-> time]))
  IN  Chunked(save_uploaded_file(files, Str(s), fname, "documents", time), chunk_contract(s))

\* save_extraction_results: the record as JSON and its text, written under the
\* contract number
save_extraction_results(files, c, document_text) ==
  LET Saved(json_path, text_path) ==
        [json_path |-> json_path, text_path |-> text_path,
         disk |-> dict_set(dict_set(files, json_path,
                                    dict_set(c, "document_text", document_text)),
                           text_path, document_text)]
  IN  Saved(<<"synthetic", c.contract_number \o <<".", "j", "s", "o", "n">>>>,
            <<"documents", c.contract_number \o <<".", "t", "x", "t">>>>)

\* _report_to_dict: confidence_avg, the quotient of a sum of hundredths by a
\* count, is rounded to thousandths
_report_to_dict(rep) ==
  LET Round(q, r, n) == IF 2 * r > n \/ (2 * r = n /\ q % 2 = 1) THEN q + 1 ELSE q
      Thousandths(sum, n) ==
        IF sum = 0 THEN 0 ELSE Round((10 * sum) \div n, (10 * sum) % n, n)
  IN  [k \in {"total_fields", "regex_extracted", "llm_extracted", "defaulted",
              "confidence_avg", "warnings", "field_sources"} |->
         IF k = "confidence_avg"
         THEN Thousandths(rep.confidence_avg[1], rep.confidence_avg[2])
         ELSE rep[k]]

\* text documents of an upload: lines of the canonical layout, a paragraph of
\* 102 characters, and a line-item marker without "(CLINs)"
PARAGRAPH_LINE ==
  <<"The contractor shall provide all personnel, equipment, tools, materials and supervision required here.">>
SHORT_CLINS_LINE == <<"--- CONTRACT LINE ITEMS ---">>
UploadLines == {BLANK, NUMBER_LINE, PARAGRAPH_LINE, SOW_LINE, VALUE_LINE,
                SHORT_CLINS_LINE, END_LINE}

\* file names of text uploads
TXT_NAME    == <<"a", ".", "t", "x", "t">>
BARE_NAME   == <<"n", "o", "t", "e", "s">>
MISNAMED    == <<"a", ".", "D", "o", "c", "x">>
TextNames   == {TXT_NAME, MISNAMED, <<>>}

\* contents and names of the files saved in a row, the number of calls and
\* the seconds they take
SavedContents == {Str(<<"one">>), Str(<<"two">>)}
SavedNames == {TXT_NAME, BARE_NAME}
MaxSaves == 3
MaxClock == 2

\* the documents of the uploads of Word files
UploadExtractions == {BARE, FULL, BAD_QUANTITY}

(***************************************************************************)
(* State machine                                                           *)
(***************************************************************************)
\* the record of a document that no extraction produced
NoContract == [contract_number |-> UNKNOWN]

chunk_vars == <<contract_number, contract_metadata, context_prefix, sections, chunks>>
result_vars == <<is_valid, error, contract, report>>
upload_vars == <<vector_store, disk, clock, retriever, returned>>

Init ==
  /\ text = <<>>
  /\ nlines = 0
  /\ pc = "input"
  /\ filename = <<>>
  /\ docx = File(<<>>)
  /\ freeform = dict_set(MOCK, "found", BARE.found)
  /\ is_valid = FALSE
  /\ error = <<>>
  /\ hash_table = EmptyDict
  /\ previous = None
  /\ regex_results = EmptyDict
  /\ llm_results = EmptyDict
  /\ report = ExtractionReport
  /\ contract = NoContract
  /\ contract_number = UNKNOWN
  /\ contract_metadata = EmptyDict
  /\ context_prefix = <<>>
  /\ sections = <<>>
  /\ chunks = <<>>
  /\ vector_store = <<>>
  /\ disk = EmptyDict
  /\ clock = 0
  /\ retriever = 0
  /\ returned = <<>>

\* the uploaded file grows by one line
Write(lines) ==
  /\ pc = "input"
  /\ nlines < MaxLines
  /\ \E line \in lines :
       text' = IF nlines = 0 THEN line ELSE text \o <<NL>> \o line
  /\ nlines' = nlines + 1
  /\ UNCHANGED <<pc, filename, docx, freeform, hash_table, previous, regex_results,
                 llm_results, result_vars, chunk_vars, upload_vars>>

WriteSectionLine == Write(SectionLines)
WriteClauseLine  == Write(ClauseLines)
WriteHeaderLine  == Write(HeaderLines)

\* a confidence race: pattern results of a confidence below the narrative
\* confidence are discarded before the merge
Merge_confidence_race(fname, regex, llm, table, id) ==
  LET Filled(c, rep) ==
        [contract |-> _fill_defaults(c, fname, hash(table, _fill_defaults(c, fname, id).contract_number, id)),
         report |-> FillReport(c, fname, rep)]
      Race(kept) == Filled(_merge_results(kept, llm), MergeReport(kept, llm, ExtractionReport))
  IN  Race([field \in DOMAIN regex |->
              IF regex[field].confidence < llm.confidence
              THEN ExtractionResult(None, 0) ELSE regex[field]])

\* the merge and the defaults recorded in the report of the call before
\* instead of a fresh one
Merge_into_report(fname, regex, llm, table, id) ==
  LET Filled(c, rep) ==
        [contract |-> _fill_defaults(c, fname, hash(table, _fill_defaults(c, fname, id).contract_number, id)),
         report |-> FillReport(c, fname, rep)]
  IN  Filled(_merge_results(regex, llm), MergeReport(regex, llm, report))

\* the contract and report that _merge_results and _fill_defaults make of the
\* extractors' results; id is the hash of a contract number not hashed before
Merge(fname, regex, llm, table, id) ==
  LET Filled(c, rep) ==
        [contract |-> _fill_defaults(c, fname, hash(table, _fill_defaults(c, fname, id).contract_number, id)),
         report |-> FillReport(c, fname, rep)]
  IN  Filled(_merge_results(regex, llm), MergeReport(regex, llm, ExtractionReport))

\* extract_contract_from_docx on a valid document, after the extractors:
\* merge, defaults, canonical text, report statistics, the valid result
Extract(fname, regex, llm, id) ==
  LET Rendered(merged) ==
        /\ contract' = merged.contract
        /\ report' = ReportStats(regex, llm, merged.report)
        /\ text' = _generate_document_text(merged.contract)
        /\ hash_table' = dict_set(hash_table, merged.contract.contract_number,
                                  merged.contract.id)
  IN  /\ regex_results' = regex
      /\ llm_results' = llm
      /\ Rendered(Merge(fname, regex, llm, hash_table, id))
      /\ is_valid' = TRUE
      /\ error' = <<>>
      /\ pc' = "extracted"

\* extract_contract_from_docx returns the invalid result before any extractor
Reject(reason) ==
  /\ is_valid' = FALSE
  /\ error' = reason
  /\ contract' = EmptyDict
  /\ text' = <<>>
  /\ report' = ExtractionReport
  /\ pc' = "rejected"
  /\ UNCHANGED <<regex_results, llm_results, hash_table>>

\* an exception leaves extract_contract_from_docx: nothing is returned
Raise ==
  /\ pc' = "raised"
  /\ UNCHANGED <<text, regex_results, llm_results, hash_table, result_vars>>

\* extract_contract_from_docx(file_bytes, filename, mode, api_key): its
\* arguments, locals and result
ExtractionOf(uploads, files, far_lists, dfars_lists, extractions, calls) ==
  /\ pc = "input"
  /\ nlines = 0
  /\ \E upload \in uploads, file \in files, far \in far_lists, dfars \in dfars_lists,
        d \in extractions, call \in calls, id \in HashValues :
       LET Extracted_by(regex) ==
             IF regex.raised THEN Raise
             ELSE Extract(upload[2], regex.value,
                          extract_freeform_fields(d.found, call.mode, call.api_key,
                                                  call.service), id)
           Validated(validation) ==
             IF ~validation.is_valid THEN Reject(validation.error)
             ELSE Extracted_by(extract_all_regex(upload[1], far, dfars, d))
       IN  /\ filename' = upload[2]
           /\ docx' = file
           /\ freeform' = dict_set(call, "found", d.found)
           /\ Validated(validate_docx(file))
  /\ UNCHANGED <<nlines, previous>>

\* extraction = extract_contract_from_docx(file_bytes, filename, mode, api_key)
ExtractContractFromDocx(uploads, files, far_lists, dfars_lists, extractions, calls) ==
  /\ ExtractionOf(uploads, files, far_lists, dfars_lists, extractions, calls)
  /\ UNCHANGED <<chunk_vars, upload_vars>>

\* uploads of readable documents in mock mode, with all the clause lists
ExtractRendered ==
  ExtractContractFromDocx(Uploads, ValidFiles, FarLists, DfarsLists, Extractions, MockCalls)

\* uploads of any file in any mode
ExtractAny ==
  ExtractContractFromDocx(Uploads, Files, FewFarLists, NoDfarsLists, AllExtractions, Calls)

\* _merge_results and _fill_defaults once more on the results of the upload,
\* in the same process, with a fresh report
MergeAgain ==
  /\ pc = "extracted"
  /\ previous = None
  /\ previous' = Some([contract |-> contract, report |-> report])
  /\ \E id \in HashValues :
       LET Stored(merged) ==
             /\ contract' = merged.contract
             /\ report' = ReportStats(regex_results, llm_results, merged.report)
             /\ hash_table' = dict_set(hash_table, merged.contract.contract_number,
                                       merged.contract.id)
       IN  Stored(Merge(filename, regex_results, llm_results, hash_table, id))
  /\ UNCHANGED <<text, nlines, pc, filename, docx, freeform, is_valid, error,
                 regex_results, llm_results, chunk_vars, upload_vars>>

\* the locals of a chunk_contract call and its return value, as the state keeps them
Return(r) ==
  /\ contract_number' = r.contract_number
  /\ contract_metadata' = r.contract_metadata
  /\ context_prefix' = r.context_prefix
  /\ sections' = r.sections
  /\ chunks' = r.chunks

\* chunks = chunk_contract(file_content), chunks = chunk_contract(extraction.document_text)
ChunkContract ==
  /\ pc \in {"input", "extracted"}
  /\ Return(chunk_contract(text))
  /\ pc' = "done"
  /\ UNCHANGED <<text, nlines, filename, docx, freeform, hash_table, previous,
                 regex_results, llm_results, result_vars, upload_vars>>

WriteUploadLine == Write(UploadLines)
WriteDollarLine == Write(DollarLines)

\* extract_dollar_values(text) on the text written
ExtractDollarValues ==
  /\ pc = "input"
  /\ regex_results' = extract_dollar_values(text)
  /\ pc' = "matched"
  /\ UNCHANGED <<text, nlines, filename, docx, freeform, hash_table, previous, llm_results,
                 result_vars, chunk_vars, upload_vars>>


\* validate_upload(file_content, filename) on the text written
ValidateUpload ==
  /\ pc = "input"
  /\ \E fname \in TextNames :
       /\ filename' = fname
       /\ returned' = Append(returned, validate_upload(Str(text), fname))
  /\ pc' = "validated"
  /\ UNCHANGED <<text, nlines, docx, freeform, hash_table, previous, regex_results,
                 llm_results, result_vars, chunk_vars, vector_store, disk, clock,
                 retriever>>

\* process_upload(file_content, filename, vector_store, save_directory)
ProcessUpload ==
  /\ pc = "input"
  /\ \E fname \in {TXT_NAME} :
       LET Processed(r) ==
             /\ returned' = Append(returned, r.returned)
             /\ vector_store' = r.vector_store
             /\ disk' = r.disk
             /\ Return(r.chunked)
       IN  /\ filename' = fname
           /\ Processed(process_upload(text, fname, vector_store, disk, clock))
  /\ pc' = "returned"
  /\ UNCHANGED <<text, nlines, docx, freeform, hash_table, previous, regex_results,
                 llm_results, result_vars, clock, retriever>>

\* ContractAgent.ingest_document(file_content, filename, save_directory)
IngestDocument ==
  /\ pc = "input"
  /\ \E fname \in {TXT_NAME} :
       LET Refreshed(r) ==
             /\ returned' = Append(returned,
                                  dict_update(r.returned,
                                              [valid |-> TRUE,
                                               new_total_vectors |-> Len(r.vector_store)]))
             /\ vector_store' = r.vector_store
             /\ retriever' = Len(r.vector_store)
             /\ disk' = r.disk
             /\ Return(r.chunked)
           Ingested(validation) ==
             IF ~validation.is_valid
             THEN /\ returned' = Append(returned,
                                       [valid |-> FALSE, error |-> validation.error])
                  /\ UNCHANGED <<vector_store, retriever, disk, chunk_vars>>
             ELSE Refreshed(process_upload(text, fname, vector_store, disk, clock))
       IN  /\ filename' = fname
           /\ Ingested(validate_upload(Str(text), <<>>))
  /\ pc' = "returned"
  /\ UNCHANGED <<text, nlines, docx, freeform, hash_table, previous, regex_results,
                 llm_results, result_vars, clock>>

\* process_docx_upload(file_bytes, filename, vector_store, save_directory,
\* json_directory, mode, api_key)
ProcessDocxUpload ==
  /\ ExtractionOf(Uploads, Files, FewFarLists, NoDfarsLists, UploadExtractions, MockCalls)
  /\ LET ChunkTypes(chunk_list) ==
           [t \in {chunk_list[i].chunk_type : i \in 1..Len(chunk_list)} |->
              Cardinality({i \in 1..Len(chunk_list) : chunk_list[i].chunk_type = t})]
         Indexed(saved, documents) ==
           /\ vector_store' = vector_store \o documents
           /\ disk' = saved.disk
           /\ returned' =
                Append(returned,
                       [saved_path |-> <<"uploads", filename'>>,
                        json_path |-> saved.json_path,
                        text_path |-> saved.text_path,
                        num_chunks |-> Len(chunks'),
                        num_vectors_added |-> Len(documents),
                        chunk_types |-> ChunkTypes(chunks'),
                        contract_number |-> contract'.contract_number,
                        extraction_report |-> _report_to_dict(report')])
         NotIndexed(saved) ==
           /\ vector_store' = vector_store
           /\ disk' = saved.disk
           /\ returned' =
                Append(returned,
                       [saved_path |-> <<"uploads", filename'>>,
                        json_path |-> saved.json_path,
                        text_path |-> saved.text_path,
                        num_chunks |-> 0,
                        num_vectors_added |-> 0,
                        chunk_types |-> EmptyDict,
                        contract_number |-> contract'.contract_number,
                        error |-> <<"No chunks could be extracted from the generated text.">>,
                        extraction_report |-> _report_to_dict(report')])
         Chunked(saved) ==
           /\ Return(chunk_contract(text'))
           /\ IF chunks' = <<>> THEN NotIndexed(saved)
              ELSE Indexed(saved,
                           chunks_to_langchain_documents(chunks',
                             [source_file |-> filename', source_format |-> "docx",
                              upload_time |-> clock, extraction_mode |-> freeform'.mode]))
         Extracted_to(saved_docx) ==
           IF pc' = "raised"
           THEN /\ disk' = saved_docx.disk
                /\ UNCHANGED <<vector_store, returned, chunk_vars>>
           ELSE IF ~is_valid'
           THEN /\ disk' = saved_docx.disk
                /\ returned' =
                     Append(returned,
                            [saved_path |-> saved_docx.path, num_chunks |-> 0,
                             num_vectors_added |-> 0, chunk_types |-> EmptyDict,
                             contract_number |-> UNKNOWN,
                             error |-> <<"Extraction failed:", SP>> \o error',
                             extraction_report |-> None])
                /\ UNCHANGED <<vector_store, chunk_vars>>
           ELSE Chunked(save_extraction_results(saved_docx.disk, contract', text'))
     IN  Extracted_to(save_uploaded_file(disk, Bytes(docx'), filename', "uploads", clock))
  /\ UNCHANGED <<clock, retriever>>

\* save_uploaded_file(file_content, filename, save_directory), one call after
\* another into the same directory; the clock reads the time of the last call or
\* a later one
SaveUploadedFile ==
  /\ pc = "input"
  /\ Len(returned) < MaxSaves
  /\ \E file_content \in SavedContents, fname \in SavedNames, now \in clock..MaxClock :
       LET Saved(saved) ==
             /\ disk' = saved.disk
             /\ returned' = Append(returned, saved.path)
       IN  /\ clock' = now
           /\ Saved(save_uploaded_file(disk, file_content, fname, "documents", now))
  /\ UNCHANGED <<text, nlines, pc, filename, docx, freeform, hash_table, previous,
                 regex_results, llm_results, result_vars, chunk_vars, vector_store,
                 retriever>>

NextSections == WriteSectionLine \/ ChunkContract
NextClauses  == WriteClauseLine \/ ChunkContract
NextHeader   == WriteHeaderLine \/ ChunkContract
NextRender   == ExtractRendered \/ ChunkContract
NextExtract  == ExtractAny \/ MergeAgain \/ ChunkContract
NextUpload   == WriteUploadLine \/ ValidateUpload \/ IngestDocument \/ ProcessUpload
                  \/ ProcessDocxUpload
NextSave     == SaveUploadedFile
NextDollar   == WriteDollarLine \/ ExtractDollarValues

Spec         == Init /\ [][NextSections]_vars
SpecClauses  == Init /\ [][NextClauses]_vars
SpecHeader   == Init /\ [][NextHeader]_vars
SpecRender   == Init /\ [][NextRender]_vars
SpecExtract  == Init /\ [][NextExtract]_vars
SpecUpload   == Init /\ [][NextUpload]_vars
SpecSave     == Init /\ [][NextSave]_vars
SpecDollar   == Init /\ [][NextDollar]_vars

(***************************************************************************)
(* Properties of chunk_contract                                            *)
(***************************************************************************)
Done == pc = "done"

ChunkIdx == 1..Len(chunks)
SectionIdx == 1..Len(sections)

\* the returned chunks of one section name, and the sections of that name
ChunksOf(name) == SelectSeq(chunks, LAMBDA c : c.section = name)
SectionsOf(name) == SelectSeq(sections, LAMBDA sec : sec[1] = name)

SubChunked == {"far_clauses", "dfars_clauses", "clins", "subcontractor_requirements"}
ClauseSections == {"far_clauses", "dfars_clauses"}

KindOf(name) ==
  IF name \in ClauseSections THEN "clause" ELSE IF name = "clins" THEN "clin" ELSE "sub"

\* no section of this name holds a split point the chunker recognises
NoSplitPoint(name) ==
  \A i \in SectionIdx :
    sections[i][1] = name => finditer(KindOf(name), sections[i][2], 1) = <<>>

\* s begins with p
HasPrefix(s, p) == Len(s) >= Len(p) /\ SubSeq(s, 1, Len(p)) = p

\* the text of a chunk behind the context header
Body(chunk) ==
  IF HasPrefix(chunk.text, context_prefix)
  THEN SubSeq(chunk.text, Len(context_prefix) + 1, Len(chunk.text))
  ELSE chunk.text

Flag(chunk) == "flowdown" \in DOMAIN chunk.metadata /\ chunk.metadata["flowdown"]

\* C2: every chunk of type clause has its flowdown flag true iff its own text
\* contains the literal [MANDATORY FLOWDOWN].
C2_FlowdownFlagIffMarker ==
  Done =>
    \A i \in ChunkIdx :
      chunks[i].chunk_type = "clause" =>
        (Flag(chunks[i]) <=> Contains(chunks[i].text, FLOWDOWN))

\* an indented line of the form "FAR|DFARS NUMBER - TITLE" with a title
IsClauseLine(line) ==
  LET l == strip(line)
  IN  /\ startswith(line, SP)
      /\ Len(l) >= 7
      /\ l[1] \in {"FAR", "DFARS"} /\ l[2] = SP /\ l[3] \in ClauseNumbers
      /\ l[4] = SP /\ l[5] = "-" /\ l[6] = SP

\* lines[a..b] joined
JoinLines(lines, a, b) == join(SubSeq(lines, a, b))

\* the n-th smallest element of a set of numbers
RECURSIVE Nth(_, _)
Nth(S, n) == IF n = 1 THEN Min(S) ELSE Nth(S \ {Min(S)}, n - 1)

\* what C3 says of one clause section: k split-point lines give k chunks, chunk
\* n running from split line n to just before split line n + 1, with the
\* number and title of split line n
ClauseChunksAsStated(section_text, cs) ==
  LET lines == split(section_text)
      K     == {j \in 1..Len(lines) : IsClauseLine(lines[j])}
      k     == Cardinality(K)
  IN  K # {} =>
        /\ Len(cs) = k
        /\ \A n \in 1..k :
             LET j    == Nth(K, n)
                 next == IF n < k THEN Nth(K, n + 1) ELSE Len(lines) + 1
                 l    == strip(lines[j])
             IN  /\ cs[n].text = strip(JoinLines(lines, j, next - 1))
                 /\ cs[n].clause_number = Some(<<l[3]>>)
                 /\ cs[n].clause_title = Some(SubSeq(l, 7, Len(l)))

\* C3: in a clause section with k >= 1 split-point lines, chunk_clause_section
\* returns exactly k chunks in document order, each spanning from its split
\* line to the next and carrying that line's clause number and title.
C3_OneChunkPerSplitLine ==
  Done =>
    \A i \in SectionIdx :
      sections[i][1] \in ClauseSections =>
        ClauseChunksAsStated(sections[i][2],
          chunk_clause_section(sections[i][2], contract_number,
            IF sections[i][1] = "far_clauses" THEN "far" ELSE "dfars"))

\* the document up to and including its first end-marker line
TruncateAtEnd(s) ==
  LET lines == split(s)
      ends  == {j \in 1..Len(lines) : strip(lines[j]) = <<END_MARKER>>}
  IN  IF ends = {} THEN s ELSE JoinLines(lines, 1, Min(ends))

\* C4: what follows the first end-marker line is discarded: the chunks
\* (texts, identifier, metadata) are those of the document cut at that line.
C4_TrailingContentDiscarded ==
  Done => chunks = chunk_contract(TruncateAtEnd(text)).chunks

\* C5: every returned chunk's text begins with the document's context header,
\* and the header is not repeated behind itself.
C5_HeaderExactlyOnce ==
  Done =>
    \A i \in ChunkIdx :
      /\ HasPrefix(chunks[i].text, context_prefix)
      /\ ~HasPrefix(Body(chunks[i]), context_prefix)

\* every chunk carries the document's identifier and every entry of the
\* contract-level metadata
SameContractOnAllChunks ==
  \A i \in ChunkIdx :
    /\ chunks[i].contract_number = contract_number
    /\ \A k \in DOMAIN contract_metadata :
         k \in DOMAIN chunks[i].metadata /\ chunks[i].metadata[k] = contract_metadata[k]

\* key k is an amount, not a string, on every chunk
NumberOnAllChunks(k) ==
  \A i \in ChunkIdx : k \in DOMAIN chunks[i].metadata /\ chunks[i].metadata[k] \in Nat

\* what follows position i on its line
AfterLabel(s, i) == SubSeq(s, i + 1, LineEnd(s, i))

\* some line of s has the label followed by a dollar amount
HasParsableLine(s, label) ==
  \E i \in 1..Len(s) : s[i] = label /\ _parse_dollar_amount(AfterLabel(s, i)) # None

\* the first occurrence of the label in s is followed, on its line, by a dollar amount
FirstLineParsable(s, label) ==
  /\ Contains(s, label)
  /\ LET i == Min({j \in 1..Len(s) : s[j] = label})
     IN  _parse_dollar_amount(AfterLabel(s, i)) # None

MarkerOnly(sec) ==
  LET lines == split(sec[2])
  IN  sec[1] # "header" /\ \A j \in 2..Len(lines) : strip(lines[j]) = <<>>

\* C7: a section whose marker line is followed by no body text produces no
\* chunk.
C7_NoChunkForMarkerOnlySection ==
  Done =>
    \A name \in {SECTION_PATTERNS[k][2] : k \in 1..Len(SECTION_PATTERNS)} :
      (\A i \in SectionIdx : sections[i][1] = name => MarkerOnly(sections[i]))
        => ChunksOf(name) = <<>>

\* C8: an empty document gives zero chunks; a section whose text is empty or
\* whitespace only gives no chunk; no returned chunk has an empty body.
C8_NoEmptyChunk ==
  Done =>
    /\ text = <<>> => chunks = <<>>
    /\ \A i \in SectionIdx :
         strip(sections[i][2]) = <<>> => ChunksOf(sections[i][1]) = <<>>
    /\ \A i \in ChunkIdx : strip(Body(chunks[i])) # <<>>

\* C8 case: a whitespace-only section was skipped in a document that has chunks
C8_Witness ==
  /\ Done
  /\ chunks # <<>>
  /\ \E i \in SectionIdx : strip(sections[i][2]) = <<>>

(***************************************************************************)
(* Properties of the canonical text                                        *)
(***************************************************************************)
\* chunk_contract has chunked the text of a valid extraction
Extracted == Done /\ is_valid

\* C9: for every contract record, the chunks of the text that
\* _generate_document_text produces for it carry the record's contract_number.
C9_RoundTripContractNumber ==
  Extracted => \A i \in ChunkIdx : chunks[i].contract_number = contract.contract_number

\* the number of chunks of the record's canonical text
ChunkCount(c) == Len(chunk_contract(_generate_document_text(c)).chunks)

Remove(l, i) == SubSeq(l, 1, i - 1) \o SubSeq(l, i + 1, Len(l))
WithoutFar(c, i) == [c EXCEPT !.clauses.far = Remove(@, i)]
WithoutDfars(c, i) == [c EXCEPT !.clauses.dfars = Remove(@, i)]

\* the chunk counts after removing one entry of the FAR list, of the DFARS list
Removals(c) ==
  {[list |-> c.clauses.far, count |-> ChunkCount(WithoutFar(c, i))] :
     i \in 1..Len(c.clauses.far)}
  \cup {[list |-> c.clauses.dfars, count |-> ChunkCount(WithoutDfars(c, i))] :
          i \in 1..Len(c.clauses.dfars)}

Titled(l) == \A i \in 1..Len(l) : l[i].title # <<>>

Collections(c) ==
  {[marker |-> "--- CONTRACT LINE ITEMS (CLINs) ---", empty |-> c.clins = <<>>],
   [marker |-> "--- APPLICABLE FAR CLAUSES ---", empty |-> c.clauses.far = <<>>],
   [marker |-> "--- APPLICABLE DFARS CLAUSES ---", empty |-> c.clauses.dfars = <<>>],
   [marker |-> "--- SUBCONTRACTOR REQUIREMENTS ---",
    empty |-> c.subcontractor_requirements = <<>>],
   [marker |-> "--- SECURITY REQUIREMENTS ---", empty |-> c.security_requirements = <<>>],
   [marker |-> "--- SPECIAL CONTRACT PROVISIONS ---", empty |-> c.special_provisions = <<>>]}

\* the marker line is in the lines, followed by a line that is not blank
MarkerThenLine(lines, marker) ==
  \E i \in 1..(Len(lines) - 1) : lines[i] = <<marker>> /\ strip(lines[i + 1]) # <<>>

\* C11: for every collection of the record that is empty (line items, FAR
\* clauses, DFARS clauses, subcontractor requirements, security requirements,
\* special provisions) the canonical text has the section marker followed by a
\* placeholder line.
C11_PlaceholderForEveryEmptyCollection ==
  Extracted =>
    \A k \in Collections(contract) : k.empty => MarkerThenLine(split(text), k.marker)

(***************************************************************************)
(* Properties of extract_contract_from_docx                                *)
(***************************************************************************)
\* the fields of a complete contract record
RecordFields ==
  {"id", "contract_number", "contract_type", "contract_type_name", "agency",
   "contracting_officer", "contractor", "naics_code", "psc_code", "idiq_vehicle",
   "parent_idiq", "value", "ceiling_value", "funded_amount", "period_of_performance",
   "clins", "clauses", "subcontractor_requirements", "scope_of_work",
   "security_requirements", "special_provisions", "domain", "is_dod", "synthetic"}

\* extract_contract_from_docx was called and is over
Called == pc \in {"extracted", "rejected", "raised"}

\* the two outcomes: an invalid result with a reason, or a valid result with a
\* complete record, its text and its report
InvalidWithReason == pc = "rejected" /\ ~is_valid /\ error # <<>>
ValidAndComplete ==
  /\ pc = "extracted"
  /\ is_valid
  /\ DOMAIN contract = RecordFields
  /\ text = _generate_document_text(contract)
  /\ report.total_fields = report.regex_extracted + report.llm_extracted + report.defaulted

\* C12: extract_contract_from_docx ends, for every input, in exactly one of
\* two outcomes: is_valid false with a non-empty reason, or is_valid true with
\* a complete record, its rendered text and its report; it never raises to the
\* caller.
C12_ValidOrInvalidNeverRaises ==
  Called => (InvalidWithReason \/ ValidAndComplete)

\* parsing the document fails: the bytes are not a Word document, or the text
\* of the paragraphs read has fewer than 50 characters after stripping
ParsingFails(file) ==
  \/ file.opens # None
  \/ StrippedLen(TextContent(file.paragraphs, 1, Piece(0, 0, 0))) < 50

\* C13: when document parsing fails, extract_contract_from_docx returns at once
\* with is_valid false and the reason, an empty record and an empty document
\* text; no extractor, merge or render step has run and the report is the fresh
\* one, all counters zero.
C13_ParsingFailureReturnsAtOnce ==
  (Called /\ ParsingFails(docx)) =>
    /\ pc = "rejected"
    /\ ~is_valid
    /\ error # <<>>
    /\ error = IF docx.opens # None THEN CANNOT_READ \o docx.opens[1] ELSE TOO_LITTLE_TEXT
    /\ contract = EmptyDict
    /\ text = <<>>
    /\ regex_results = EmptyDict
    /\ llm_results = EmptyDict
    /\ hash_table = EmptyDict
    /\ report = ExtractionReport

C13_Witness ==
  /\ pc = "rejected"
  /\ docx = SHORT_FILE
  /\ error = TOO_LITTLE_TEXT
  /\ filename = PLAIN_NAME
  /\ freeform.mode = "anthropic"

\* extract_freeform_fields has returned to extract_contract_from_docx
Inferred == pc \in {"extracted", "done"} /\ is_valid

\* the generative strategy was chosen: anthropic mode with an API key
Generative ==
  freeform.mode = "anthropic" /\ freeform.api_key # None /\ freeform.api_key # Some(<<>>)

\* the call succeeded and its output is a JSON object: nothing raised, and the
\* response is one JSON object, alone or inside a code fence
CallSucceeded(service) ==
  /\ service.raises = None
  /\ \E document \in {JSON_OBJECT, JSON_PARTIAL} :
       SelectSeq(service.content, LAMBDA t : ~IsSpace(t)) \in
         {<<document>>, <<FENCE, document, FENCE>>, <<FENCE, "json", document, FENCE>>}

FromRegex(rep, field) ==
  field \in DOMAIN rep.field_sources /\ rep.field_sources[field] = "regex"

\* C15: in the merge a pattern-extracted value is used for a structured field
\* only when its confidence is above the 0.5 floor; otherwise the result is
\* treated as absent and the field takes its policy default (0.0 for the value).
C15_UsedOnlyAboveFloor ==
  Inferred =>
    /\ \A field \in RegexFields \cap DOMAIN regex_results :
         FromRegex(report, field) => regex_results[field].confidence > min_confidence
    /\ ("value" \in DOMAIN regex_results
        /\ regex_results["value"].confidence <= min_confidence) => contract.value = 0

\* the structured fields and the narrative fields of a record
STRUCTURED ==
  {"contract_number", "contract_type", "contract_type_name", "agency",
   "contracting_officer", "contractor", "naics_code", "psc_code", "value",
   "ceiling_value", "funded_amount", "period_of_performance", "clins", "clauses",
   "subcontractor_requirements", "is_dod"}
NARRATIVE == {"scope_of_work", "security_requirements", "special_provisions", "domain"}

Only(c, fields) == [field \in fields |-> c[field]]

\* narrative results in which nothing was found, no pattern results at all
NoNarrative == _extract_with_keywords(BARE.found)
NoPatterns == EmptyDict

STEM_WARNING(fname) ==
  <<"Contract number not found in text; using filename:", SP>> \o Stem(fname)

\* C17: when no identifier is extracted from the document, the record's
\* identifier is the stem of the source filename and the report carries a
\* warning saying so, for every filename.
C17_IdentifierFromFilenameStem ==
  (Inferred /\ _get_regex(regex_results, "contract_number") = None) =>
    /\ contract.contract_number = Stem(filename)
    /\ \E i \in 1..Len(report.warnings) : report.warnings[i] = STEM_WARNING(filename)

SourceNames(field) ==
  CASE field = "contractor" -> {"contractor_name", "cage", "size", "uei"}
    [] field = "period_of_performance" ->
         {"base_period_start", "base_period_end", "base_period_months", "option_periods"}
    [] field = "clauses" -> {"far_clauses", "dfars_clauses"}
    [] field = "subcontractor_requirements" -> {"subcontractors"}
    [] OTHER -> {field}

\* the extracted fields of a record (not the ones derived from other fields)
ExtractedFields == (STRUCTURED \ {"contract_type_name", "is_dod"}) \cup NARRATIVE

\* C19: when extract_contract_from_docx returns a valid result, the report's
\* origin map has an entry (regex, llm or default) for every field of the
\* record, including every field that received a policy default.
C19_OriginMapFullyPopulated ==
  Inferred =>
    /\ \A field \in ExtractedFields :
         \E name \in SourceNames(field) : name \in DOMAIN report.field_sources
    /\ \A name \in DOMAIN report.field_sources :
         report.field_sources[name] \in {"regex", "llm", "default"}

\* the pattern results and the narrative fields that the report says were used
UsedPattern == {name \in DOMAIN regex_results : FromRegex(report, name)}
UsedNarrative ==
  {field \in NARRATIVE :
     field \in DOMAIN report.field_sources /\ report.field_sources[field] = "llm"}

\* the sum of the confidences of pattern results
RECURSIVE SumConfidence(_, _)
SumConfidence(results, names) ==
  LET Add(name) == results[name].confidence + SumConfidence(results, names \ {name})
  IN  IF names = {} THEN 0 ELSE Add(CHOOSE name \in names : TRUE)

\* the fraction <<sum, count>> is the mean of total over n values, 0 for none
IsMean(fraction, total, n) ==
  IF n = 0 THEN fraction[1] = 0 ELSE fraction[1] * n = total * fraction[2]

\* C20: the report's average confidence is the mean of the confidences of
\* exactly the fields whose pattern or narrative value was used in the record
\* (the narrative confidence counted for each narrative field used, or once
\* for all of them); defaulted fields, discarded results and an unused
\* narrative result do not contribute, and it is 0 when nothing was used.
C20_MeanOfUsedConfidences ==
  Inferred =>
    \/ IsMean(report.confidence_avg,
              SumConfidence(regex_results, UsedPattern)
                + Cardinality(UsedNarrative) * llm_results.confidence,
              Cardinality(UsedPattern) + Cardinality(UsedNarrative))
    \/ /\ UsedNarrative # {}
       /\ IsMean(report.confidence_avg,
                 SumConfidence(regex_results, UsedPattern) + llm_results.confidence,
                 Cardinality(UsedPattern) + 1)

(***************************************************************************)
(* Properties of the context header's value label                          *)
(***************************************************************************)
\* the label the header carries is the one formatted from the amount under
\* key, followed by these words
LabelFrom(key, words) ==
  /\ key \in DOMAIN contract_metadata
  /\ "value_label" \in DOMAIN contract_metadata
  /\ contract_metadata["value_label"]
       = <<_format_value_label(contract_metadata[key])>> \o words

\* C22: the value label is derived from the funded amount whenever the
\* document states a funded amount, else from the base value when it states
\* one, else from the ceiling; it is absent only when the document states none
\* of the three.
C22_LabelPrefersFundedBaseCeiling ==
  Done =>
    IF FirstLineParsable(text, "Funded Amount:")
    THEN LabelFrom("funded_amount", <<SP, "funded">>)
    ELSE IF FirstLineParsable(text, "Base Period Value:")
    THEN LabelFrom("base_value", <<SP, "base", SP, "value">>)
    ELSE IF FirstLineParsable(text, "Contract Ceiling:")
    THEN LabelFrom("ceiling_value", <<SP, "ceiling">>)
    ELSE "value_label" \notin DOMAIN contract_metadata

(***************************************************************************)
(* Properties of the header fields                                         *)
(***************************************************************************)
\* s has lines with the label, and none of them carries a value
NoValueOnOwnLine(s, label) ==
  /\ Contains(s, label)
  /\ \A i \in 1..Len(s) : s[i] = label => strip(AfterLabel(s, i)) = <<>>

\* C25: a labeled header line that carries no value on its own line leaves
\* its field absent (the identifier is UNKNOWN, the metadata key is not set):
\* no text of a later line is taken as its value.
C25_NoValueFromLaterLine ==
  Done =>
    /\ NoValueOnOwnLine(text, "CONTRACT NUMBER:") => contract_number = UNKNOWN
    /\ \A p \in 1..Len(text_patterns) :
         NoValueOnOwnLine(text, text_patterns[p][2])
           => text_patterns[p][1] \notin DOMAIN contract_metadata

(***************************************************************************)
(* Properties of the chunk texts as a cover of the document                *)
(***************************************************************************)
\* the line holds a section marker
IsMarkerLine(line) ==
  \E p \in 1..Len(SECTION_PATTERNS) : Contains(line, SECTION_PATTERNS[p][1])

\* the lines of s[1..upto], stripped, without the blank and the marker lines
ContentLines(lines, upto) ==
  SelectSeq([j \in 1..upto |-> strip(lines[j])],
            LAMBDA line : line # <<>> /\ ~IsMarkerLine(line))

\* the content lines of the document before its first end-marker line
DocumentLines ==
  LET Before(lines, ends) ==
        ContentLines(lines, IF ends = {} THEN Len(lines) ELSE Min(ends) - 1)
      Cut(lines) ==
        Before(lines, {j \in 1..Len(lines) : strip(lines[j]) = <<END_MARKER>>})
  IN  Cut(split(text))

\* the content lines of the chunks i.. behind their context headers
RECURSIVE ChunkLines(_)
ChunkLines(i) ==
  LET Lines(lines) == ContentLines(lines, Len(lines))
  IN  IF i > Len(chunks) THEN <<>>
      ELSE Lines(split(Body(chunks[i]))) \o ChunkLines(i + 1)

Occurrences(line, lines) == Cardinality({j \in 1..Len(lines) : lines[j] = line})

\* C28: no body content is lost or duplicated by chunking: every non-blank
\* line before the end marker that is not a section-marker line appears in
\* the text of exactly one chunk (as often in the chunks as in the document).
C28_EveryLineInExactlyOneChunk ==
  Done =>
    \A j \in 1..Len(DocumentLines) :
      Occurrences(DocumentLines[j], ChunkLines(1))
        = Occurrences(DocumentLines[j], DocumentLines)

(***************************************************************************)
(* Properties of the monetary figures of a record                          *)
(***************************************************************************)
\* the record has a ceiling and a funded amount above it
Overfunded(c) ==
  /\ "ceiling_value" \in DOMAIN c
  /\ c.ceiling_value # None
  /\ c.funded_amount > c.ceiling_value[1]

\* the warnings about fields that were not found
MissingFieldWarnings ==
  {STEM_WARNING(filename),
   <<"Contracting officer name not found">>,
   <<"Contract dollar value not found">>,
   <<"No CLINs found">>,
   <<"Scope of work not found">>,
   <<"Period of performance dates not found">>}

\* C27: a record whose funded amount exceeds its ceiling value is not
\* rejected: it is returned as valid, and the report carries a data-quality
\* warning about the violated relation (a warning other than those about
\* fields that were not found).
C27_OverfundedValidWithWarning ==
  (Called /\ Overfunded(contract)) =>
    /\ is_valid
    /\ \E w \in 1..Len(report.warnings) : report.warnings[w] \notin MissingFieldWarnings

(***************************************************************************)
(* Properties of the report counters                                       *)
(***************************************************************************)
\* the fields the origin map tags with one origin
Tagged(origin) ==
  {f \in DOMAIN report.field_sources : report.field_sources[f] = origin}

\* C29: in every report returned with a valid result, total_fields is the sum
\* of the three counters, and each counter is the number of origin-map entries
\* with its tag: every field is counted under one origin only.
C29_CountersMatchOriginMap ==
  Inferred =>
    /\ report.total_fields
         = report.regex_extracted + report.llm_extracted + report.defaulted
    /\ report.regex_extracted = Cardinality(Tagged("regex"))
    /\ report.llm_extracted = Cardinality(Tagged("llm"))
    /\ report.defaulted = Cardinality(Tagged("default"))

(***************************************************************************)
(* Properties of validate_upload                                           *)
(***************************************************************************)
\* validate_upload has returned for the text written, a text document by its
\* name (no name, or a name that does not end in .docx)
Validated == pc = "validated" /\ filename \in {<<>>, TXT_NAME}

\* the outcome of that call
Outcome == returned[Len(returned)]

\* the text holds a marker that validation recognizes as a section marker
HasSectionMarker(s) ==
  \E m \in 1..Len(SECTION_MARKERS) : \E tok \in SECTION_MARKERS[m] : Contains(s, tok)

\* the reason mentions "section"
MentionsSection(reason) == Contains(reason, "section")

\* C23 as stated: for a text document that contains none of the recognized
\* section markers validate_upload returns false and a reason that mentions
\* "section".
C23_NoSectionMarkerReasonMentionsSection ==
  (Validated /\ ~HasSectionMarker(text)) =>
    (~Outcome.is_valid /\ MentionsSection(Outcome.error))

\* C23: for a text document of at least 100 characters (stripped) that
\* contains the identifier marker and none of the recognized section
\* markers, validate_upload returns false and a reason that mentions
\* "section"; for every text document without a section marker it returns
\* false.
C23_ReasonMentionsSectionAfterOtherChecks ==
  (Validated /\ ~HasSectionMarker(text)) =>
    /\ ~Outcome.is_valid
    /\ (len(strip(text)) >= 100 /\ Contains(text, "CONTRACT NUMBER:"))
         => MentionsSection(Outcome.error)

\* C23 case: a long document with the identifier marker and no section marker
\* was validated
C23_Witness ==
  /\ Validated
  /\ ~HasSectionMarker(text)
  /\ len(strip(text)) >= 100
  /\ Contains(text, "CONTRACT NUMBER:")
  /\ Contains(text, "--- TOTAL CONTRACT VALUE ---")
  /\ MentionsSection(Outcome.error)

\* split_into_sections finds a named section in the text
HasNamedSection(s) ==
  LET Named(secs) == \E i \in 1..Len(secs) : secs[i][1] # "header"
  IN  Named(split_into_sections(s))

\* C26: every text document that validate_upload accepts contains the
\* identifier marker and at least one section-marker line that
\* split_into_sections recognizes as the start of a named section.
C26_AcceptedHasNumberAndNamedSection ==
  (Validated /\ Outcome.is_valid) =>
    (Contains(text, "CONTRACT NUMBER:") /\ HasNamedSection(text))

(***************************************************************************)
(* Properties of save_uploaded_file                                        *)
(***************************************************************************)
\* C24: no call of save_uploaded_file overwrites a file written by an earlier
\* call: every file on the disk before a call is there after it, with the
\* content it had, also when the same filename is saved several times in a
\* row.
C24_NoSaveOverwrites ==
  [][\A path \in DOMAIN disk : path \in DOMAIN disk' /\ disk'[path] = disk[path]]_vars

(***************************************************************************)
(* Properties of the vector store                                          *)
(***************************************************************************)
\* the step is a call of process_upload, ingest_document or
\* process_docx_upload that returns
UploadReturns ==
  /\ pc' \in {"returned", "extracted", "rejected"}
  /\ Len(returned') = Len(returned) + 1

\* the vectors the step adds to the store
Added == SubSeq(vector_store', Len(vector_store) + 1, Len(vector_store'))

\* C30: a call of ingest_document, process_upload or process_docx_upload that
\* returns a result with an error has added no document to the vector store;
\* a call that returns without error has added as many vectors as chunk_contract
\* produced chunks, and reports that number.
C30_ErrorAddsNothing ==
  [][UploadReturns =>
       LET r == returned'[Len(returned')]
       IN  IF "error" \in DOMAIN r
           THEN vector_store' = vector_store
           ELSE /\ vector_store' = vector_store \o Added
                /\ Len(Added) = Len(chunks')
                /\ Len(chunks') > 0
                /\ r.num_chunks = Len(chunks')
                /\ r.num_vectors_added = Len(chunks')]_vars

\* C30 case: process_upload saved a document that gave no chunks and returned
\* an error
C30_Witness ==
  /\ pc = "returned"
  /\ nlines > 0
  /\ "error" \in DOMAIN Outcome
  /\ "saved_path" \in DOMAIN Outcome
  /\ Outcome.saved_path \in DOMAIN disk
  /\ vector_store = <<>>

(***************************************************************************)
(* Properties of extract_dollar_values                                     *)
(***************************************************************************)
Matched == pc = "matched"

\* the label tokens of a field of field_patterns
LabelsOf(field) ==
  field_patterns[CHOOSE n \in 1..Len(field_patterns) : field_patterns[n][1] = field][2]

\* the amounts that stand behind a label of the field on the label's own line
AmountsOnLabeledLines(s, field) ==
  {LabeledAmountAt(split(s)[n], i + 1).amount :
     <<n, i>> \in {<<n, i>> \in (1..Len(split(s))) \X (1..Len(s)) :
                     /\ i <= Len(split(s)[n])
                     /\ split(s)[n][i] \in LabelsOf(field)
                     /\ LabeledAmountAt(split(s)[n], i + 1).ok}}

\* the largest dollar figure of the text, when every figure is a number
IsLargestFigure(s, amount) ==
  /\ \E n \in 1..Len(AllAmounts(s)) : AllAmounts(s)[n] = amount
  /\ \A n \in 1..Len(AllAmounts(s)) :
       AllAmounts(s)[n] # None /\ AllAmounts(s)[n][1] <= amount[1]

\* a result below the confidence of a labeled amount is the only result, is the
\* base value at confidence 0.5, is the largest dollar figure, and no label of
\* any field has an amount
C21_UnlabeledOnlyAsLoneBaseValue ==
  Matched =>
    \A f \in DOMAIN regex_results :
      regex_results[f].confidence < 85 =>
        /\ DOMAIN regex_results = {"value"}
        /\ regex_results[f].confidence = 50
        /\ IsLargestFigure(text, regex_results[f].value)
        /\ \A g \in {"value", "ceiling_value", "funded_amount"} :
             AmountsOnLabeledLines(text, g) = {}

\* a ceiling or funded result is an amount that stands behind the field's label
\* on the label's own line
C21_CeilingAndFundedFromOwnLines ==
  Matched =>
    \A f \in {"ceiling_value", "funded_amount"} \cap DOMAIN regex_results :
      regex_results[f].value \in AmountsOnLabeledLines(text, f)

\* a labeled base value and no funded label anywhere give the base value at
\* confidence 0.85 or more and no funded result
C21_LabeledBaseWithoutFundedLine ==
  (/\ Matched
   /\ AmountsOnLabeledLines(text, "value") \ {None} # {}
   /\ \A i \in 1..Len(text) : text[i] \notin LabelsOf("funded_amount")) =>
    /\ "value" \in DOMAIN regex_results
    /\ regex_results["value"].confidence >= 85
    /\ "funded_amount" \notin DOMAIN regex_results

\* C21: extract_dollar_values gives an unlabeled dollar figure (the largest of
\* the text) only to the base value, at confidence 0.5, and only when no labeled
\* base, ceiling or funded amount matched; a ceiling or funded result comes only
\* from its own labeled line; a text with a labeled base value and no funded
\* line gives the base value at confidence 0.85 or more and no funded result.
C21_UnlabeledOnlyToBaseValue ==
  /\ C21_UnlabeledOnlyAsLoneBaseValue
  /\ C21_CeilingAndFundedFromOwnLines
  /\ C21_LabeledBaseWithoutFundedLine
====
